---- MODULE Spec2Model ----
(***************************************************************************)
(* A state-machine model of wrale-fleet-metal-hw: the GPIO controller with *)
(* its software PWM engine (gpio/controller.go), the polled edge monitor   *)
(* (gpio/interrupt.go), the diagnostics battery (diag/manager.go), the     *)
(* thermal monitor (thermal), the security manager (secure), the power     *)
(* stability monitor (power) and the controller's methods taken one call   *)
(* at a time in both modes.  Each subsystem has its own specification      *)
(* over its own group of variables; the other groups stay unchanged.       *)
(***************************************************************************)
EXTENDS Integers, Sequences, FiniteSets, TLC

(***************************************************************************)
(* Bounds of the model.                                                    *)
(***************************************************************************)
NumThreads == 2
MaxObjs == 2
MaxLoops == 2
MaxMonitors == 2
MaxTime == 3
MaxRuns == 1
MaxDirect == 1

Threads == 1..NumThreads
Objs == 1..MaxObjs
Loops == 1..MaxLoops
Monitors == 1..MaxMonitors

PwmNames == {"fan"}
PinNames == {"led"}
Names == PwmNames \cup PinNames

(* The duty cycles callers pass: an intermediate one, the always-high one  *)
(* and an out-of-range one.                                                *)
DutyInputs == {50, 100, 101}

VARIABLES
    \* ---- gpio.Controller (gpio/controller.go) ----
    simulation,   \* Controller.simulation
    ctlEnabled,   \* Controller.enabled
    cmux,         \* Controller.mux: 0 when free, else the thread holding the write lock
    readers,      \* Controller.mux: how many goroutines hold the read lock
    pins,         \* Controller.pins: name -> "absent" | "nil" | "real"
    simPins,      \* Controller.simPins: name -> "absent" | "low" | "high" (simPin.value)
    pwmPins,      \* Controller.pwmPins: name -> pwmState object id, 0 when absent
    obj,          \* the pwmState objects ever created
    nObjs,        \* how many pwmState objects have been created
    loops,        \* the pwmLoop goroutines
    hw,           \* per physical pin: the level of the last Out call, "none" before any
    th,           \* the calling goroutines and where each one is in its call
    ret,          \* the call that returned in the step just taken, if one did
    \* ---- observations about the controller ----
    quiet,        \* name -> a DisablePWM(name) returned and no EnablePWM(name) was called since
    lateWrite,    \* name -> a PWM write reached the pin while quiet[name]
    closeView,    \* what Close left behind at the moment it returned
    \* ---- edge monitor (gpio/interrupt.go) ----
    interrupts,   \* Controller.interrupts: name -> interruptState
    now,          \* the clock time.Now() reads, in milliseconds
    mon,          \* the Monitor calls: "none" | "running" | "returned"
    cancelled,    \* per Monitor call: its context is done
    pollers,      \* the monitorPin goroutine of each Monitor call
    accepted,     \* name -> the times of the last two events the gate accepted for the binding
    lateCall,     \* name -> the handler ran while the binding stood disabled
    \* ---- diag.Manager (diag/manager.go) ----
    cfg,          \* Manager.cfg, as New left it
    results,      \* Manager.results
    notified,     \* how many times OnTestComplete ran
    run,          \* the RunAll call: where it is in its two loops
    runs,         \* how many RunAll calls were made
    tries,        \* per battery test: the attempts of the current RunAll call
    passed,       \* per battery test: which attempt of the current call succeeded, 0 if none
    runRet,       \* what the last RunAll call returned
    base,         \* the length of results when the current RunAll call began
    calls,        \* the OnTestComplete calls of the last attempt, and what each one saw
    snap,         \* the slice a GetResults call handed to the caller of the manager
    direct,       \* the test calls the caller made on its own, and what the last one returned
    \* ---- thermal.Monitor (thermal) ----
    tcfg,         \* the Monitor's configuration: pins, temperature paths, callbacks
    tstate,       \* Monitor.state
    tmux,         \* Monitor.mux: "free", or who holds the write lock
    tick,         \* the updateThermalState call of the Monitor loop
    tgpio,        \* what the monitor last set on the controller: fan duty, throttle level
    fanInit,      \* an InitializeFanControl call made after New: where it is
    tret,         \* the thermal call that returned in the step just taken, if one did,
                  \* with the snapshot it left
    \* ---- secure.Manager (secure) ----
    scfg,         \* the Manager's configuration: whether it has a callback and a store
    sstate,       \* Manager.state
    sstore,       \* the state store: the state it holds and how many events it logged
    smon,         \* the Monitor call: its position and what it returned
    stick,        \* what the last checkSecurity call did
    nticks,       \* how many checkSecurity calls were made
    sense,        \* the sensor pins' levels and the reads of a checkSecurity call in progress
    \* ---- power.stabilityMonitor (power) ----
    pcfg,         \* stabilityMonitor.cfg, as newStabilityMonitor left it
    samples,      \* stabilityMonitor.samples, the circular buffer, in tenths of a volt
    head,         \* stabilityMonitor.head, counted from 1
    count,        \* stabilityMonitor.count
    lastSource,   \* stabilityMonitor.lastSource
    cycleStart,   \* stabilityMonitor.cycleStart
    cycleInProgress, \* stabilityMonitor.cycleInProgress
    metrics,      \* stabilityMonitor.metrics
    pnow,         \* the clock time.Now() reads, in sample intervals
    pmon,         \* the Monitor call: its position and what it returned
    emitted,      \* per event type: how many events OnStabilityEvent was handed
    ptick,        \* what the last sample call saw and did
    vhist,        \* the voltages sampled so far
    \* ---- gpio.Controller, one call after the other ----
    api,          \* a controller used by a single caller
    last,         \* the last call made on api: the call, its outcome, the controller before it
    twin,         \* two controllers given the same calls: a simulated one and a hardware one
    twinRes,      \* the outcomes of the last call on the two controllers
    ncalls        \* how many calls were made

gpioVars == <<simulation, ctlEnabled, cmux, readers, pins, simPins, pwmPins, obj, nObjs, loops,
              hw, th, ret, quiet, lateWrite, closeView>>

intVars == <<interrupts, now, mon, cancelled, pollers, accepted, lateCall>>

diagVars == <<cfg, results, notified, run, runs, tries, passed, runRet, base, calls, snap,
              direct>>

thermVars == <<tcfg, tstate, tmux, tick, tgpio, tret, fanInit>>

secVars == <<scfg, sstate, sstore, smon, stick, nticks, sense>>

powVars == <<pcfg, samples, head, count, lastSource, cycleStart, cycleInProgress, metrics,
             pnow, pmon, emitted, ptick, vhist>>

apiVars == <<api, last, twin, twinRes, ncalls>>

(* The subsystems that only read the controller, and the controller seen   *)
(* call by call.                                                           *)
restVars == <<secVars, powVars, apiVars>>

(* Everything outside the controller; controller steps leave it alone. *)
nonGpioVars == <<intVars, diagVars, thermVars, restVars>>

(* Everything outside the controller and its edge monitor. *)
nonIntVars == <<diagVars, thermVars, restVars>>

vars == <<gpioVars, nonGpioVars>>

(***************************************************************************)
(* gpio.Controller                                                         *)
(***************************************************************************)
NoObj == [name |-> "", pin |-> "nil", enabled |-> FALSE, dutyCycle |-> 0,
          doneClosed |-> FALSE, wg |-> 0]
NoLoop == [pc |-> "none", obj |-> 0, duty |-> 0, armed |-> FALSE, stale |-> FALSE]
IdleThread == [pc |-> "idle", obj |-> 0, arg |-> 0, nested |-> FALSE, failed |-> FALSE,
               afterClose |-> FALSE]
NoRet == [op |-> "none", res |-> "none", afterClose |-> FALSE]
NoCloseView == [returned |-> FALSE, running |-> 0, high |-> {}]

LevelOf(high) == IF high THEN "high" ELSE "low"

(* The loops that generate for channel name n, whichever pwmState they run on. *)
LoopsOf(n) == {l \in Loops : loops[l].pc # "none" /\ obj[loops[l].obj].name = n}

(* pwmState objects of name n that ConfigurePWM has replaced in the map. *)
Orphans(n) == {o \in 1..nObjs : obj[o].name = n /\ pwmPins[n] # o}

(* Lock() waits for the writer and the readers, RLock() for the writer. *)
WriteLockFree == cmux = 0 /\ readers = 0
ReadLockFree == cmux = 0

(* A call is made by a goroutine that is in no call; which of the idle     *)
(* goroutines makes it is immaterial, so the first one does.               *)
Caller(t) == th[t].pc = "idle" /\ \A u \in 1..(t - 1) : th[u].pc # "idle"

Returned(t, op, res) ==
    /\ th' = [th EXCEPT ![t] = IdleThread]
    /\ ret' = [op |-> op, res |-> res, afterClose |-> th[t].afterClose]

ReturnedNow(t, op, res) ==
    /\ th' = [th EXCEPT ![t] = IdleThread]
    /\ ret' = [op |-> op, res |-> res, afterClose |-> ~ctlEnabled]

GpioInit ==
    /\ simulation \in BOOLEAN
    /\ ctlEnabled = TRUE
    /\ cmux = 0
    /\ readers = 0
    /\ pins = [n \in Names |-> "absent"]
    /\ simPins = [n \in Names |-> "absent"]
    /\ pwmPins = [n \in PwmNames |-> 0]
    /\ obj = [o \in Objs |-> NoObj]
    /\ nObjs = 0
    /\ loops = [l \in Loops |-> NoLoop]
    /\ hw = [n \in Names |-> "none"]
    /\ th = [t \in Threads |-> IdleThread]
    /\ ret = NoRet
    /\ quiet = [n \in PwmNames |-> FALSE]
    /\ lateWrite = [n \in PwmNames |-> FALSE]
    /\ closeView = NoCloseView

(* ConfigurePin: the whole call runs under the write lock. *)
ConfigurePin(t, n, kind, inOk) ==
    /\ UNCHANGED <<readers, nonGpioVars>>
    /\ Caller(t) /\ WriteLockFree
    /\ UNCHANGED <<simulation, ctlEnabled, cmux, pwmPins, obj, nObjs, loops, hw,
                   quiet, lateWrite, closeView>>
    /\ IF ~ctlEnabled
       THEN /\ ReturnedNow(t, "ConfigurePin", "disabled")
            /\ UNCHANGED <<pins, simPins>>
       ELSE IF simulation
       THEN /\ pins' = [pins EXCEPT ![n] = kind]
            /\ simPins' = [simPins EXCEPT ![n] = "low"]
            /\ ReturnedNow(t, "ConfigurePin",
                           IF kind = "real" /\ ~inOk THEN "hwerr" ELSE "ok")
       ELSE IF kind = "nil"
       THEN /\ ReturnedNow(t, "ConfigurePin", "invalid")
            /\ UNCHANGED <<pins, simPins>>
       ELSE IF ~inOk
       THEN /\ ReturnedNow(t, "ConfigurePin", "hwerr")
            /\ UNCHANGED <<pins, simPins>>
       ELSE /\ pins' = [pins EXCEPT ![n] = "real"]
            /\ ReturnedNow(t, "ConfigurePin", "ok")
            /\ UNCHANGED simPins

(* SetPinState: the whole call runs under the write lock; it does not look *)
(* at Controller.enabled.                                                  *)
SetPinState(t, n, high, outOk) ==
    /\ UNCHANGED <<readers, nonGpioVars>>
    /\ Caller(t) /\ WriteLockFree
    /\ UNCHANGED <<simulation, ctlEnabled, cmux, pins, pwmPins, obj, nObjs, loops,
                   quiet, lateWrite, closeView>>
    /\ IF simulation
       THEN IF simPins[n] = "absent"
            THEN /\ ReturnedNow(t, "SetPinState", "notfound")
                 /\ UNCHANGED <<simPins, hw>>
            ELSE /\ simPins' = [simPins EXCEPT ![n] = LevelOf(high)]
                 /\ IF pins[n] = "real"
                    THEN /\ hw' = [hw EXCEPT ![n] = LevelOf(high)]
                         /\ ReturnedNow(t, "SetPinState", IF outOk THEN "ok" ELSE "hwerr")
                    ELSE /\ ReturnedNow(t, "SetPinState", "ok")
                         /\ UNCHANGED hw
       ELSE IF pins[n] = "absent"
       THEN /\ ReturnedNow(t, "SetPinState", "notfound")
            /\ UNCHANGED <<simPins, hw>>
       ELSE IF pins[n] = "nil"
       THEN /\ ReturnedNow(t, "SetPinState", "invalid")
            /\ UNCHANGED <<simPins, hw>>
       ELSE /\ hw' = [hw EXCEPT ![n] = LevelOf(high)]
            /\ ReturnedNow(t, "SetPinState", IF outOk THEN "ok" ELSE "hwerr")
            /\ UNCHANGED simPins

(* GetPinState: the whole call runs under the read lock. *)
GetPinState(t, n) ==
    /\ UNCHANGED <<readers, nonGpioVars>>
    /\ Caller(t) /\ ReadLockFree
    /\ UNCHANGED <<simulation, ctlEnabled, cmux, pins, simPins, pwmPins, obj, nObjs,
                   loops, hw, quiet, lateWrite, closeView>>
    /\ IF simulation
       THEN ReturnedNow(t, "GetPinState", IF simPins[n] = "absent" THEN "notfound" ELSE "ok")
       ELSE ReturnedNow(t, "GetPinState",
                        IF pins[n] = "absent" THEN "notfound"
                        ELSE IF pins[n] = "nil" THEN "invalid" ELSE "ok")

(* ConfigurePWM: the whole call runs under the write lock.  It always      *)
(* installs a fresh pwmState under the name, whatever was there before.    *)
ConfigurePWM(t, n, kind, duty, inOk, outOk) ==
    /\ UNCHANGED <<readers, nonGpioVars>>
    /\ Caller(t) /\ WriteLockFree
    /\ nObjs < MaxObjs
    /\ UNCHANGED <<simulation, ctlEnabled, cmux, pins, loops, quiet, lateWrite, closeView>>
    /\ LET fresh == [name |-> n, pin |-> kind, enabled |-> FALSE, dutyCycle |-> duty,
                     doneClosed |-> FALSE, wg |-> 0]
           install == /\ nObjs' = nObjs + 1
                      /\ obj' = [obj EXCEPT ![nObjs + 1] = fresh]
                      /\ pwmPins' = [pwmPins EXCEPT ![n] = nObjs + 1]
       IN
       IF ~ctlEnabled
       THEN /\ ReturnedNow(t, "ConfigurePWM", "disabled")
            /\ UNCHANGED <<simPins, pwmPins, obj, nObjs, hw>>
       ELSE IF duty > 100
       THEN /\ ReturnedNow(t, "ConfigurePWM", "invalid")
            /\ UNCHANGED <<simPins, pwmPins, obj, nObjs, hw>>
       ELSE IF simulation
       THEN /\ install
            /\ simPins' = [simPins EXCEPT ![n] = "low"]
            /\ ReturnedNow(t, "ConfigurePWM", "ok")
            /\ UNCHANGED hw
       ELSE IF kind = "nil"
       THEN /\ ReturnedNow(t, "ConfigurePWM", "invalid")
            /\ UNCHANGED <<simPins, pwmPins, obj, nObjs, hw>>
       ELSE IF ~inOk
       THEN /\ ReturnedNow(t, "ConfigurePWM", "hwerr")
            /\ UNCHANGED <<simPins, pwmPins, obj, nObjs, hw>>
       ELSE IF ~outOk
       THEN /\ hw' = [hw EXCEPT ![n] = "low"]
            /\ ReturnedNow(t, "ConfigurePWM", "hwerr")
            /\ UNCHANGED <<simPins, pwmPins, obj, nObjs>>
       ELSE /\ hw' = [hw EXCEPT ![n] = "low"]
            /\ install
            /\ ReturnedNow(t, "ConfigurePWM", "ok")
            /\ UNCHANGED simPins

(* EnablePWM, DisablePWM and SetPWMDutyCycle look the pwmState up under    *)
(* the controller's read lock, release that lock, and only then take       *)
(* pwmState.mux: between the two another call may replace the pwmState in  *)
(* the map, and the section then runs on the replaced object.              *)
Looked(t, pc, o, d) ==
    th' = [th EXCEPT ![t] = [IdleThread EXCEPT !.pc = pc, !.obj = o, !.arg = d,
                                !.nested = (th[t].pc = "close_disable"),
                                !.afterClose = IF th[t].pc = "idle" THEN ~ctlEnabled
                                               ELSE th[t].afterClose]]

(* An EnablePWM call on channel n has looked its pwmState up and has not   *)
(* returned.                                                               *)
Enabling(n) == \E u \in Threads : th[u].pc = "enable" /\ obj[th[u].obj].name = n

(* The new loop takes the first free goroutine slot. *)
FreeLoop == CHOOSE l \in Loops : loops[l].pc = "none" /\ \A k \in 1..(l - 1) : loops[k].pc # "none"

(* EnablePWM: the map lookup under the read lock. *)
EnablePWM(t, n) ==
    /\ UNCHANGED <<readers, nonGpioVars>>
    /\ Caller(t) /\ ReadLockFree
    /\ UNCHANGED <<simulation, ctlEnabled, cmux, pins, simPins, pwmPins, obj, nObjs, loops,
                   hw, lateWrite, closeView>>
    /\ LET o == pwmPins[n] IN
       IF o = 0
       THEN /\ ReturnedNow(t, "EnablePWM", "notfound")
            /\ UNCHANGED quiet
       ELSE /\ Looked(t, "enable", o, 0)
            /\ quiet' = [quiet EXCEPT ![n] = FALSE]
            /\ ret' = NoRet

(* EnablePWM: the section under pwmState.mux.  A new done channel replaces *)
(* the old one, so a loop still running on this pwmState holds a closed    *)
(* channel from now on.                                                    *)
EnablePWMSection(t) ==
    /\ UNCHANGED <<readers, nonGpioVars>>
    /\ th[t].pc = "enable"
    /\ UNCHANGED <<simulation, ctlEnabled, cmux, pins, simPins, pwmPins, nObjs, hw,
                   quiet, lateWrite, closeView>>
    /\ LET o == th[t].obj IN
       IF obj[o].enabled
       THEN /\ Returned(t, "EnablePWM", "ok")
            /\ UNCHANGED <<obj, loops>>
       ELSE IF simulation
       THEN /\ obj' = [obj EXCEPT ![o].enabled = TRUE, ![o].doneClosed = FALSE]
            /\ Returned(t, "EnablePWM", "ok")
            /\ UNCHANGED loops
       ELSE /\ \E l \in Loops : loops[l].pc = "none"
            /\ loops' = [k \in Loops |->
                           IF k = FreeLoop
                           THEN [pc |-> "select", obj |-> o, duty |-> 0,
                                 armed |-> TRUE, stale |-> FALSE]
                           ELSE IF loops[k].pc # "none" /\ loops[k].obj = o
                           THEN [loops[k] EXCEPT !.stale = TRUE]
                           ELSE loops[k]]
            /\ obj' = [obj EXCEPT ![o].enabled = TRUE, ![o].doneClosed = FALSE,
                                  ![o].wg = @ + 1]
            /\ Returned(t, "EnablePWM", "ok")

(* How a DisablePWM call ends: a call made by Close goes on with Close. *)
DisableReturns(t, res) ==
    IF th[t].pc = "close_disable" \/ th[t].nested
    THEN /\ th' = [th EXCEPT ![t] = [IdleThread EXCEPT !.pc = "close_pins",
                                        !.failed = (res # "ok"),
                                        !.afterClose = th[t].afterClose]]
         /\ ret' = NoRet
    ELSE /\ th' = [th EXCEPT ![t] = IdleThread]
         /\ ret' = [op |-> "DisablePWM", res |-> res,
                    afterClose |-> IF th[t].pc = "idle" THEN ~ctlEnabled ELSE th[t].afterClose]

(* The channel is quiet once a DisablePWM call on it has returned with the *)
(* pwmState disabled, unless an EnablePWM call on it is under way.         *)
QuietAfterDisable(o) ==
    quiet' = [quiet EXCEPT ![obj[o].name] =
                 IF obj'[o].enabled \/ Enabling(obj[o].name) THEN @ ELSE TRUE]

(* DisablePWM: the map lookup under the read lock, which waits for as long *)
(* as any goroutine (the caller included) holds the write lock.            *)
DisablePWM(t, n) ==
    /\ UNCHANGED <<readers, nonGpioVars>>
    /\ (Caller(t) \/ th[t].pc = "close_disable") /\ ReadLockFree
    /\ UNCHANGED <<simulation, ctlEnabled, cmux, pins, simPins, pwmPins, obj, nObjs, loops,
                   hw, quiet, lateWrite, closeView>>
    /\ LET o == pwmPins[n] IN
       IF o = 0
       THEN DisableReturns(t, "notfound")
       ELSE /\ Looked(t, "disable", o, 0)
            /\ ret' = NoRet

(* DisablePWM: the section under pwmState.mux.  In hardware mode the call  *)
(* goes on to wait for the loop.                                           *)
DisablePWMSection(t) ==
    /\ UNCHANGED <<readers, nonGpioVars>>
    /\ th[t].pc = "disable"
    /\ UNCHANGED <<simulation, ctlEnabled, cmux, pins, simPins, pwmPins, nObjs, loops, hw,
                   lateWrite, closeView>>
    /\ LET o == th[t].obj IN
       IF ~obj[o].enabled
       THEN /\ DisableReturns(t, "ok")
            /\ UNCHANGED obj
            /\ QuietAfterDisable(o)
       ELSE /\ obj' = [obj EXCEPT ![o].enabled = FALSE, ![o].doneClosed = TRUE]
            /\ IF simulation
               THEN /\ DisableReturns(t, "ok")
                    /\ QuietAfterDisable(o)
               ELSE /\ th' = [th EXCEPT ![t].pc = "dis_wait"]
                    /\ ret' = NoRet /\ UNCHANGED quiet

(* DisablePWM: wg.Wait() returns once the counter is zero. *)
DisablePWMWait(t) ==
    /\ UNCHANGED <<readers, nonGpioVars>>
    /\ th[t].pc = "dis_wait"
    /\ obj[th[t].obj].wg = 0
    /\ UNCHANGED <<simulation, ctlEnabled, cmux, pins, simPins, pwmPins, obj, nObjs,
                   loops, hw, lateWrite, closeView>>
    /\ IF obj[th[t].obj].pin = "nil"
       THEN /\ DisableReturns(t, "ok")
            /\ QuietAfterDisable(th[t].obj)
       ELSE /\ th' = [th EXCEPT ![t].pc = "dis_out"]
            /\ ret' = NoRet /\ UNCHANGED quiet

(* DisablePWM: the final write of the pin. *)
DisablePWMOut(t, outOk) ==
    /\ UNCHANGED <<readers, nonGpioVars>>
    /\ th[t].pc = "dis_out"
    /\ hw' = [hw EXCEPT ![obj[th[t].obj].name] = "low"]
    /\ DisableReturns(t, IF outOk THEN "ok" ELSE "hwerr")
    /\ UNCHANGED obj
    /\ QuietAfterDisable(th[t].obj)
    /\ UNCHANGED <<simulation, ctlEnabled, cmux, pins, simPins, pwmPins, nObjs, loops,
                   lateWrite, closeView>>

(* The pin write of a PWM operation on pwmState o. *)
PwmWrite(o, level) ==
    /\ hw' = [hw EXCEPT ![obj[o].name] = level]
    /\ lateWrite' = [lateWrite EXCEPT ![obj[o].name] = @ \/ quiet[obj[o].name]]

(* SetPWMDutyCycle: the map lookup under the read lock. *)
SetPWMDutyCycle(t, n, d) ==
    /\ UNCHANGED <<readers, nonGpioVars>>
    /\ Caller(t) /\ ReadLockFree
    /\ UNCHANGED <<simulation, ctlEnabled, cmux, pins, simPins, pwmPins, obj, nObjs, loops,
                   hw, quiet, lateWrite, closeView>>
    /\ LET o == pwmPins[n] IN
       IF o = 0
       THEN ReturnedNow(t, "SetPWMDutyCycle", "notfound")
       ELSE /\ Looked(t, "setduty", o, d)
            /\ ret' = NoRet

(* SetPWMDutyCycle: the section under pwmState.mux. *)
SetPWMDutyCycleSection(t, outOk) ==
    /\ UNCHANGED <<readers, nonGpioVars>>
    /\ th[t].pc = "setduty"
    /\ UNCHANGED <<simulation, ctlEnabled, cmux, pins, simPins, pwmPins, nObjs, loops,
                   quiet, closeView>>
    /\ LET o == th[t].obj
           d == th[t].arg
       IN
       IF d > 100
       THEN /\ Returned(t, "SetPWMDutyCycle", "invalid")
            /\ UNCHANGED <<obj, hw, lateWrite>>
       ELSE /\ obj' = [obj EXCEPT ![o].dutyCycle = d]
            /\ IF obj[o].enabled /\ ~simulation /\ obj[o].pin # "nil" /\ d \in {0, 100}
               THEN /\ PwmWrite(o, IF d = 0 THEN "low" ELSE "high")
                    /\ Returned(t, "SetPWMDutyCycle", IF outOk THEN "ok" ELSE "hwerr")
               ELSE /\ Returned(t, "SetPWMDutyCycle", "ok")
                    /\ UNCHANGED <<hw, lateWrite>>

(* pwmLoop leaves: the deferred wg.Done(). *)
LoopExit(l) ==
    /\ loops' = [loops EXCEPT ![l] = NoLoop]
    /\ obj' = [obj EXCEPT ![loops[l].obj].wg = @ - 1]

(* pwmLoop, select: the done channel it looks at is closed.  The loop      *)
(* reads pwmState.done without the lock, so after a re-enable it may see   *)
(* the new open channel or still the old closed one.                       *)
LoopDone(l) ==
    /\ UNCHANGED <<readers, nonGpioVars>>
    /\ loops[l].pc = "select"
    /\ obj[loops[l].obj].doneClosed \/ loops[l].stale
    /\ LoopExit(l)
    /\ UNCHANGED <<simulation, ctlEnabled, cmux, pins, simPins, pwmPins, nObjs, hw, th,
                   quiet, lateWrite, closeView>>
    /\ ret' = NoRet

(* pwmLoop, select: the timer fires; enabled and dutyCycle are read under  *)
(* pwmState.mux.                                                           *)
LoopTimer(l) ==
    /\ UNCHANGED <<readers, nonGpioVars>>
    /\ loops[l].pc = "select" /\ loops[l].armed
    /\ UNCHANGED <<simulation, ctlEnabled, cmux, pins, simPins, pwmPins, nObjs, hw, th,
                   quiet, lateWrite, closeView>>
    /\ ret' = NoRet
    /\ LET o == loops[l].obj IN
       IF ~obj[o].enabled
       THEN LoopExit(l)
       ELSE /\ UNCHANGED obj
            /\ IF obj[o].pin = "nil"
               THEN loops' = [loops EXCEPT ![l].armed = FALSE]
               ELSE loops' = [loops EXCEPT ![l].armed = FALSE, ![l].pc = "out",
                                           ![l].duty = obj[o].dutyCycle]

(* pwmLoop: the first write of a cycle.  A failed write skips the timer    *)
(* reset.                                                                  *)
LoopOut(l, outOk) ==
    /\ UNCHANGED <<readers, nonGpioVars>>
    /\ loops[l].pc = "out"
    /\ PwmWrite(loops[l].obj, IF loops[l].duty = 0 THEN "low" ELSE "high")
    /\ loops' = [loops EXCEPT ![l].pc = IF outOk /\ loops[l].duty \notin {0, 100}
                                        THEN "on" ELSE "select",
                              ![l].armed = outOk /\ loops[l].duty \in {0, 100},
                              ![l].duty = 0]
    /\ UNCHANGED <<simulation, ctlEnabled, cmux, pins, simPins, pwmPins, obj, nObjs, th,
                   quiet, closeView>>
    /\ ret' = NoRet

(* pwmLoop: after time.Sleep(onTime), the write that ends the high phase. *)
LoopOff(l, outOk) ==
    /\ UNCHANGED <<readers, nonGpioVars>>
    /\ loops[l].pc = "on"
    /\ PwmWrite(loops[l].obj, "low")
    /\ loops' = [loops EXCEPT ![l].pc = "select", ![l].armed = outOk]
    /\ UNCHANGED <<simulation, ctlEnabled, cmux, pins, simPins, pwmPins, obj, nObjs, th,
                   quiet, closeView>>
    /\ ret' = NoRet

RunningLoops == {l \in Loops : loops[l].pc # "none"}

(* Close takes the write lock.  In simulation mode it only clears enabled. *)
(* In hardware mode it calls DisablePWM for the PWM names while it holds   *)
(* the lock, then writes the pins.                                         *)
Close(t) ==
    /\ UNCHANGED <<readers, nonGpioVars>>
    /\ Caller(t) /\ WriteLockFree
    /\ UNCHANGED <<simulation, pins, simPins, pwmPins, obj, nObjs, loops, hw, quiet,
                   lateWrite>>
    /\ IF simulation
       THEN /\ ctlEnabled' = FALSE
            /\ ReturnedNow(t, "Close", "ok")
            /\ closeView' = [returned |-> TRUE, running |-> Cardinality(RunningLoops),
                             high |-> {n \in Names : pins[n] = "real" /\ hw[n] = "high"}]
            /\ UNCHANGED cmux
       ELSE /\ cmux' = t
            /\ th' = [th EXCEPT ![t] = [IdleThread EXCEPT
                          !.pc = IF \E n \in PwmNames : pwmPins[n] # 0
                                 THEN "close_disable" ELSE "close_pins",
                          !.afterClose = ~ctlEnabled]]
            /\ ret' = NoRet /\ UNCHANGED <<ctlEnabled, closeView>>

(* Close, hardware mode: every pin of Controller.pins that is not nil is   *)
(* written low, then enabled is cleared and the lock released.  The call   *)
(* returns the error of a write that failed; with no such pin there is no  *)
(* write to fail.                                                          *)
ClosePins(t, outOk) ==
    /\ UNCHANGED <<readers, nonGpioVars>>
    /\ th[t].pc = "close_pins"
    /\ hw' = [n \in Names |-> IF pins[n] = "real" THEN "low" ELSE hw[n]]
    /\ ctlEnabled' = FALSE
    /\ cmux' = 0
    /\ Returned(t, "Close",
                IF (outOk \/ \A n \in Names : pins[n] # "real") /\ ~th[t].failed
                THEN "ok" ELSE "hwerr")
    /\ closeView' = [returned |-> TRUE, running |-> Cardinality(RunningLoops),
                     high |-> {n \in Names : pins[n] = "real" /\ hw'[n] = "high"}]
    /\ UNCHANGED <<simulation, pins, simPins, pwmPins, obj, nObjs, loops, quiet, lateWrite>>

(* A client that makes one call at a time. *)
OneCaller == \A u \in Threads : th[u].pc = "idle"

(* The whole controller API driven by a client that makes one call at a    *)
(* time, with the pwmLoop goroutines running beside it.                    *)
GpioNext ==
    \/ \E t \in Threads, n \in PinNames, kind \in {"nil", "real"}, inOk \in BOOLEAN :
          OneCaller /\ ConfigurePin(t, n, kind, inOk)
    \/ \E t \in Threads, n \in Names, high \in BOOLEAN, outOk \in BOOLEAN :
          OneCaller /\ SetPinState(t, n, high, outOk)
    \/ \E t \in Threads, n \in Names : OneCaller /\ GetPinState(t, n)
    \/ \E t \in Threads, n \in PwmNames, kind \in {"nil", "real"}, d \in DutyInputs,
          inOk \in BOOLEAN, outOk \in BOOLEAN :
          OneCaller /\ ConfigurePWM(t, n, kind, d, inOk, outOk)
    \/ \E t \in Threads, n \in PwmNames : OneCaller /\ EnablePWM(t, n)
    \/ \E t \in Threads : EnablePWMSection(t)
    \/ \E t \in Threads, n \in PwmNames : OneCaller /\ DisablePWM(t, n)
    \/ \E t \in Threads : DisablePWMSection(t)
    \/ \E t \in Threads : DisablePWMWait(t)
    \/ \E t \in Threads, outOk \in BOOLEAN : DisablePWMOut(t, outOk)
    \/ \E t \in Threads, n \in PwmNames, d \in DutyInputs :
          OneCaller /\ SetPWMDutyCycle(t, n, d)
    \/ \E t \in Threads, outOk \in BOOLEAN : SetPWMDutyCycleSection(t, outOk)
    \/ \E l \in Loops : LoopDone(l)
    \/ \E l \in Loops : LoopTimer(l)
    \/ \E l \in Loops, outOk \in BOOLEAN : LoopOut(l, outOk)
    \/ \E l \in Loops, outOk \in BOOLEAN : LoopOff(l, outOk)
    \/ \E t \in Threads : OneCaller /\ Close(t)
    \/ \E t \in Threads, outOk \in BOOLEAN : ClosePins(t, outOk)

(* The PWM engine driven by NumThreads goroutines whose calls overlap. *)
PwmNext ==
    \/ \E t \in Threads, n \in PwmNames, kind \in {"nil", "real"}, d \in DutyInputs,
          inOk \in BOOLEAN, outOk \in BOOLEAN : ConfigurePWM(t, n, kind, d, inOk, outOk)
    \/ \E t \in Threads, n \in PwmNames : EnablePWM(t, n)
    \/ \E t \in Threads : EnablePWMSection(t)
    \/ \E t \in Threads, n \in PwmNames : DisablePWM(t, n)
    \/ \E t \in Threads : DisablePWMSection(t)
    \/ \E t \in Threads : DisablePWMWait(t)
    \/ \E t \in Threads, outOk \in BOOLEAN : DisablePWMOut(t, outOk)
    \/ \E t \in Threads, n \in PwmNames, d \in DutyInputs : SetPWMDutyCycle(t, n, d)
    \/ \E t \in Threads, outOk \in BOOLEAN : SetPWMDutyCycleSection(t, outOk)
    \/ \E l \in Loops : LoopDone(l)
    \/ \E l \in Loops : LoopTimer(l)
    \/ \E l \in Loops, outOk \in BOOLEAN : LoopOut(l, outOk)
    \/ \E l \in Loops, outOk \in BOOLEAN : LoopOff(l, outOk)
    \/ \E t \in Threads : Close(t)
    \/ \E t \in Threads, outOk \in BOOLEAN : ClosePins(t, outOk)

(***************************************************************************)
(* Edge monitor: gpio/interrupt.go                                         *)
(***************************************************************************)
defaultDebounceTime == 50

(* The debounce times callers configure, in milliseconds; 0 asks for the   *)
(* default.                                                                *)
DebounceInputs == {0, 2}

NoTime == [set |-> FALSE, at |-> 0]
NoInterrupt == [exists |-> FALSE, enabled |-> FALSE, debounce |-> 0, lastTrigger |-> NoTime,
                handler |-> FALSE, edge |-> "BOTH"]

(* The Edge values of an InterruptConfig. *)
Edges == {"RISING", "FALLING", "BOTH"}

(* The debounce scenarios bind both edges and poll an input that its       *)
(* pull-up holds high: handleInterrupt looks at neither.                   *)
PulledUp == {TRUE}
BothEdges == {"BOTH"}

(* A monitorPin goroutine: where it is, the pin it polls, the time its     *)
(* handleInterrupt call read, the level of its last pin.Read() and, from   *)
(* that read to the end of handleInterrupt, the level of the read before.  *)
NoPoller == [pc |-> "none", name |-> "", at |-> 0, state |-> "none", prev |-> "none"]

(* The rest of the controller, which the edge monitor leaves alone. *)
gpioRest == <<simulation, ctlEnabled, cmux, pins, simPins, pwmPins, obj, nObjs, loops, hw,
              quiet, lateWrite, closeView>>

IntInit ==
    /\ interrupts = [n \in PinNames |-> NoInterrupt]
    /\ now = 0
    /\ mon = [c \in Monitors |-> "none"]
    /\ cancelled = [c \in Monitors |-> FALSE]
    /\ pollers = [c \in Monitors |-> NoPoller]
    /\ accepted = [n \in PinNames |-> <<>>]
    /\ lateCall = [n \in PinNames |-> FALSE]

(* now.Sub(lastTrigger) < DebounceTime; lastTrigger starts as the zero     *)
(* time, which is further back than any debounce time.                     *)
Debounced(i, t) == i.lastTrigger.set /\ t - i.lastTrigger.at < i.debounce

(* EnableInterrupt: the whole call runs under the write lock.  It installs *)
(* a fresh interruptState, whose lastTrigger is the zero time.             *)
EnableInterrupt(t, n, edge, debounce, handler, inOk) ==
    /\ UNCHANGED nonIntVars
    /\ Caller(t) /\ WriteLockFree
    /\ UNCHANGED <<gpioRest, readers, now, mon, cancelled, pollers, lateCall>>
    /\ IF pins[n] = "absent"
       THEN /\ ReturnedNow(t, "EnableInterrupt", "notfound")
            /\ UNCHANGED <<interrupts, accepted>>
       ELSE IF pins[n] = "nil"
       THEN /\ ReturnedNow(t, "EnableInterrupt", "panic")
            /\ UNCHANGED <<interrupts, accepted>>
       ELSE IF ~inOk
       THEN /\ ReturnedNow(t, "EnableInterrupt", "hwerr")
            /\ UNCHANGED <<interrupts, accepted>>
       ELSE /\ interrupts' = [interrupts EXCEPT ![n] =
                   [exists |-> TRUE, enabled |-> TRUE,
                    debounce |-> IF debounce = 0 THEN defaultDebounceTime ELSE debounce,
                    lastTrigger |-> NoTime, handler |-> handler, edge |-> edge]]
            /\ accepted' = [accepted EXCEPT ![n] = <<>>]
            /\ ReturnedNow(t, "EnableInterrupt", "ok")

(* DisableInterrupt: the whole call runs under the write lock. *)
DisableInterrupt(t, n) ==
    /\ UNCHANGED nonIntVars
    /\ Caller(t) /\ WriteLockFree
    /\ UNCHANGED <<gpioRest, readers, now, mon, cancelled, pollers, accepted, lateCall>>
    /\ IF ~interrupts[n].exists
       THEN /\ ReturnedNow(t, "DisableInterrupt", "notfound")
            /\ UNCHANGED interrupts
       ELSE /\ interrupts' = [interrupts EXCEPT ![n].enabled = FALSE]
            /\ ReturnedNow(t, "DisableInterrupt", "ok")

(* Monitor: one monitorPin goroutine per pin whose interrupt is enabled,   *)
(* then the call waits for its context.  Which of the Monitor calls not    *)
(* yet made comes next is immaterial, so the first one does.               *)
Monitor(c) ==
    /\ UNCHANGED nonIntVars
    /\ mon[c] = "none" /\ \A k \in 1..(c - 1) : mon[k] # "none"
    /\ mon' = [mon EXCEPT ![c] = "running"]
    /\ pollers' = [pollers EXCEPT ![c] =
          IF \E n \in PinNames : pins[n] # "absent" /\ interrupts[n].exists
                                   /\ interrupts[n].enabled
          THEN [NoPoller EXCEPT
                !.pc = "poll",
                !.name = CHOOSE n \in PinNames : pins[n] # "absent" /\ interrupts[n].exists
                                                    /\ interrupts[n].enabled]
          ELSE NoPoller]
    /\ UNCHANGED <<gpioRest, readers, th, interrupts, now, cancelled, accepted, lateCall>>
    /\ ret' = NoRet

(* The context of a Monitor call is cancelled. *)
Cancel(c) ==
    /\ UNCHANGED nonIntVars
    /\ mon[c] = "running" /\ ~cancelled[c]
    /\ cancelled' = [cancelled EXCEPT ![c] = TRUE]
    /\ UNCHANGED <<gpioRest, readers, th, interrupts, now, mon, pollers, accepted, lateCall>>
    /\ ret' = NoRet

(* Monitor: <-ctx.Done() and return nil. *)
MonitorReturn(c) ==
    /\ UNCHANGED nonIntVars
    /\ mon[c] = "running" /\ cancelled[c]
    /\ mon' = [mon EXCEPT ![c] = "returned"]
    /\ UNCHANGED <<gpioRest, readers, th, interrupts, now, cancelled, pollers, accepted, lateCall>>
    /\ ret' = NoRet

(* A select that never takes the ctx.Done() case. *)
DoneNever(c) == FALSE

(* case <-ctx.Done(): the context of the Monitor call is done. *)
Done(c) == cancelled[c]

(* monitorPin: the top of the loop.  The select returns when the context   *)
(* is done; otherwise it takes default and the pin is read, whatever its   *)
(* level, and handleInterrupt is called.                                   *)
Poll(c, high) ==
    /\ UNCHANGED nonIntVars
    /\ pollers[c].pc = "poll"
    /\ UNCHANGED <<gpioRest, readers, th, interrupts, now, mon, cancelled, accepted, lateCall>>
    /\ ret' = NoRet
    /\ IF Done(c)
       THEN pollers' = [pollers EXCEPT ![c] = NoPoller]
       ELSE pollers' = [pollers EXCEPT ![c].pc = "handle", ![c].prev = pollers[c].state,
                                       ![c].state = LevelOf(high)]

(* handleInterrupt: the goroutine gets the read lock, for which it waits   *)
(* while a call holds the write lock, finds the registration of the name   *)
(* and reads the clock.  An event that passes the check leaves the         *)
(* goroutine holding the read lock, with the time it read.                 *)
handleInterrupt(c) ==
    /\ UNCHANGED nonIntVars
    /\ pollers[c].pc = "handle"
    /\ ReadLockFree
    /\ UNCHANGED <<gpioRest, th, interrupts, now, mon, cancelled, accepted, lateCall>>
    /\ ret' = NoRet
    /\ LET i == interrupts[pollers[c].name] IN
       IF ~i.exists \/ ~i.enabled \/ Debounced(i, now)
       THEN /\ pollers' = [pollers EXCEPT ![c].pc = "poll", ![c].prev = "none"]
            /\ UNCHANGED readers
       ELSE /\ pollers' = [pollers EXCEPT ![c].pc = "gate", ![c].at = now]
            /\ readers' = readers + 1

(* handleInterrupt: lastTrigger is written and the read lock released. *)
Gate(c) ==
    /\ UNCHANGED nonIntVars
    /\ pollers[c].pc = "gate"
    /\ LET n == pollers[c].name IN
       /\ interrupts' = [interrupts EXCEPT ![n].lastTrigger =
                              [set |-> TRUE, at |-> pollers[c].at]]
       /\ accepted' = [accepted EXCEPT ![n] =
                          IF Len(@) = 2 THEN <<@[2], pollers[c].at>>
                          ELSE Append(@, pollers[c].at)]
       /\ pollers' = [pollers EXCEPT ![c].at = 0,
                                      ![c].pc = IF interrupts[n].handler THEN "call"
                                                ELSE "poll",
                                      ![c].prev = IF interrupts[n].handler THEN @
                                                  ELSE "none"]
    /\ readers' = readers - 1
    /\ ret' = NoRet
    /\ UNCHANGED <<gpioRest, th, now, mon, cancelled, lateCall>>

(* handleInterrupt: the handler runs, after the lock was released. *)
Call(c) ==
    /\ UNCHANGED nonIntVars
    /\ pollers[c].pc = "call"
    /\ pollers' = [pollers EXCEPT ![c].pc = "poll", ![c].prev = "none"]
    /\ lateCall' = [lateCall EXCEPT ![pollers[c].name] =
                       @ \/ ~interrupts[pollers[c].name].enabled]
    /\ UNCHANGED <<gpioRest, readers, th, interrupts, now, mon, cancelled, accepted>>
    /\ ret' = NoRet

(* A millisecond passes. *)
Tick ==
    /\ UNCHANGED nonIntVars
    /\ now < MaxTime
    /\ now' = now + 1
    /\ UNCHANGED <<gpioRest, readers, th, interrupts, mon, cancelled, pollers, accepted, lateCall>>
    /\ ret' = NoRet

(* The debounce scenarios: calls that do not overlap configure, bind and   *)
(* unbind a pin whose In calls succeed, beside the Monitor calls and their *)
(* goroutines.                                                             *)
IntNext ==
    \/ \E t \in Threads, n \in PinNames : OneCaller /\ ConfigurePin(t, n, "real", TRUE)
    \/ \E t \in Threads, n \in PinNames, e \in BothEdges, d \in DebounceInputs, h \in BOOLEAN :
          OneCaller /\ EnableInterrupt(t, n, e, d, h, TRUE)
    \/ \E t \in Threads, n \in PinNames : OneCaller /\ DisableInterrupt(t, n)
    \/ \E c \in Monitors : Monitor(c)
    \/ \E c \in Monitors : Cancel(c)
    \/ \E c \in Monitors : MonitorReturn(c)
    \/ \E c \in Monitors, high \in PulledUp : Poll(c, high)
    \/ \E c \in Monitors : handleInterrupt(c)
    \/ \E c \in Monitors : Gate(c)
    \/ \E c \in Monitors : Call(c)
    \/ Tick

(* The polling scenarios have one Monitor call. *)
OneMonitor == {1}

(* The polling scenarios: one caller configures the pin and binds a        *)
(* handler to any edge with a short debounce time, and the Monitor calls   *)
(* poll a pin whose level the outside world drives.                        *)
MonitorNext ==
    \/ \E n \in PinNames : ConfigurePin(1, n, "real", TRUE)
    \/ \E n \in PinNames, e \in Edges : EnableInterrupt(1, n, e, 2, TRUE, TRUE)
    \/ \E c \in OneMonitor : Monitor(c)
    \/ \E c \in OneMonitor : Cancel(c)
    \/ \E c \in OneMonitor : MonitorReturn(c)
    \/ \E c \in OneMonitor, high \in BOOLEAN : Poll(c, high)
    \/ \E c \in OneMonitor : handleInterrupt(c)
    \/ \E c \in OneMonitor : Gate(c)
    \/ \E c \in OneMonitor : Call(c)
    \/ Tick

(***************************************************************************)
(* Diagnostics: diag/manager.go                                            *)
(***************************************************************************)
defaultRetries == 3

(* The values of Config.Retries callers pass to New. *)
RetriesInputs == {-1, 0, 1, 2, 3}

(* The battery of RunAll, in its order. *)
Battery == <<"GPIO", "POWER", "THERMAL", "SECURITY">>

(* What the hardware shows to one attempt of a test. *)
(* The states Security.GetState() returns, as <<CaseOpen, MotionDetected,   *)
(* VoltageNormal>>: all quiet, the case open, everything wrong, and the    *)
(* voltage alone.                                                          *)
SecurityStates == {<<FALSE, FALSE, TRUE>>, <<TRUE, FALSE, TRUE>>,
                   <<TRUE, TRUE, FALSE>>, <<FALSE, FALSE, FALSE>>}

Envs == {e \in [gpio : {"setfail", "mismatch", "ok"}, voltageLow : BOOLEAN,
                thermal : {"cpu", "gpu", "fan", "ok"},
                caseOpen : BOOLEAN, motion : BOOLEAN, voltageNormal : BOOLEAN] :
            <<e.caseOpen, e.motion, e.voltageNormal>> \in SecurityStates}

Result(type, component, status) == [type |-> type, component |-> component, status |-> status]

(* The part of it the test of battery index k looks at; the rest is held  *)
(* at the healthy values.                                                  *)
EnvsOf(k) ==
    {e \in Envs :
        /\ (k # 1 => e.gpio = "ok")
        /\ (k # 2 => ~e.voltageLow)
        /\ (k # 3 => e.thermal = "ok")
        /\ (k # 4 => (~e.caseOpen /\ ~e.motion /\ e.voltageNormal))}

(* The RunAll call: where it is, and the length of the history when it     *)
(* returned.                                                               *)
IdleRun == [pc |-> "idle", test |-> 1, retry |-> 0, end |-> 0]

(* A slice of results in the hands of a caller: its items, and whether it  *)
(* shares its backing array with Manager.results.                          *)
NoSnapshot == [taken |-> FALSE, shared |-> FALSE, items |-> <<>>]

(* What a caller writes over an item of a slice it was given. *)
Scribble == Result("NONE", "scribble", "FAIL")
NoRunRet == [res |-> "none", test |-> 0, attempt |-> 0]
NoDirect == [n |-> 0, test |-> 0, res |-> "none"]

(* New: the defaults it fills in.  GPIO is present, or New fails. *)
New(c) == [c EXCEPT !.Retries = IF @ = 0 THEN defaultRetries ELSE @]

DiagInit ==
    /\ cfg \in {New(c) : c \in [Retries : RetriesInputs, GPIOPins : {<<>>, <<"led">>},
                                Power : BOOLEAN, Thermal : BOOLEAN, Security : BOOLEAN,
                                OnTestComplete : BOOLEAN]}
    /\ results = <<>>
    /\ notified = 0
    /\ run = IdleRun
    /\ runs = 0
    /\ tries = [k \in 1..Len(Battery) |-> 0]
    /\ passed = [k \in 1..Len(Battery) |-> 0]
    /\ runRet = NoRunRet
    /\ base = 0
    /\ calls = <<>>
    /\ snap = NoSnapshot
    /\ direct = NoDirect

(* The test functions: the results an attempt records and whether it       *)
(* returns an error.                                                       *)
TestGPIO(e) ==
    IF cfg.GPIOPins = <<>> THEN [recs |-> <<>>, err |-> FALSE]
    ELSE IF e.gpio = "setfail"
    THEN [recs |-> <<Result("GPIO", cfg.GPIOPins[1], "FAIL")>>, err |-> TRUE]
    ELSE IF e.gpio = "mismatch"
    THEN [recs |-> <<Result("GPIO", cfg.GPIOPins[1], "FAIL")>>, err |-> TRUE]
    ELSE [recs |-> <<Result("GPIO", cfg.GPIOPins[1], "PASS")>>, err |-> FALSE]

TestPower(e) ==
    IF ~cfg.Power THEN [recs |-> <<>>, err |-> TRUE]
    ELSE IF e.voltageLow
    THEN [recs |-> <<Result("POWER", "voltage", "FAIL")>>, err |-> TRUE]
    ELSE [recs |-> <<Result("POWER", "power_system", "PASS")>>, err |-> FALSE]

TestThermal(e) ==
    IF ~cfg.Thermal THEN [recs |-> <<>>, err |-> TRUE]
    ELSE IF e.thermal = "cpu"
    THEN [recs |-> <<Result("THERMAL", "cpu_temp", "FAIL")>>, err |-> TRUE]
    ELSE IF e.thermal = "gpu"
    THEN [recs |-> <<Result("THERMAL", "gpu_temp", "FAIL")>>, err |-> TRUE]
    ELSE IF e.thermal = "fan"
    THEN [recs |-> <<Result("THERMAL", "fan", "FAIL")>>, err |-> TRUE]
    ELSE [recs |-> <<Result("THERMAL", "thermal_system", "PASS")>>, err |-> FALSE]

TestSecurity(e) ==
    IF ~cfg.Security THEN [recs |-> <<>>, err |-> TRUE]
    ELSE LET warnings ==
                 (IF e.caseOpen THEN <<Result("SECURITY", "case_sensor", "WARNING")>>
                  ELSE <<>>)
                 \o (IF e.motion THEN <<Result("SECURITY", "motion_sensor", "WARNING")>>
                     ELSE <<>>)
         IN IF ~e.voltageNormal
            THEN [recs |-> Append(warnings, Result("SECURITY", "voltage_monitor", "FAIL")),
                  err |-> TRUE]
            ELSE [recs |-> Append(warnings, Result("SECURITY", "security_system", "PASS")),
                  err |-> FALSE]

TestFn(k, e) ==
    IF k = 1 THEN TestGPIO(e)
    ELSE IF k = 2 THEN TestPower(e)
    ELSE IF k = 3 THEN TestThermal(e)
    ELSE TestSecurity(e)

(* A GetResults that hands out Manager.results itself. *)
SnapshotAliased(hist) == [taken |-> TRUE, shared |-> TRUE, items |-> hist]

(* GetResults: make, then copy. *)
SnapshotOf(hist) == [taken |-> TRUE, shared |-> FALSE, items |-> hist]

(* A recordResult that unlocks with defer: the callback runs under the     *)
(* lock.                                                                   *)
CallbackLockHeld == "held"

(* recordResult: m.mux.Unlock() comes before the callback. *)
CallbackLock == "free"

(* A GetResults call made while the write lock is as given: it returns a   *)
(* snapshot of the history, or never returns when the lock is held.        *)
GetResultsUnder(lock, hist) ==
    [returned |-> lock = "free",
     items |-> IF lock = "free" THEN SnapshotOf(hist).items ELSE <<>>]

(* recordResult, for each result of an attempt: the append, then the       *)
(* callback if one is configured; the callback calls GetResults.           *)
recordResult(recs) ==
    /\ results' = results \o recs
    /\ notified' = IF cfg.OnTestComplete THEN notified + Len(recs) ELSE notified
    /\ calls' = IF cfg.OnTestComplete
                THEN [i \in 1..Len(recs) |->
                         LET got == GetResultsUnder(CallbackLock,
                                                    results \o SubSeq(recs, 1, i))
                         IN [arg |-> recs[i], mux |-> CallbackLock,
                             returned |-> got.returned, items |-> got.items]]
                ELSE <<>>

(* RunAll is called. *)
RunAll ==
    /\ UNCHANGED <<gpioVars, intVars, thermVars, restVars>>
    /\ run.pc # "running" /\ runs < MaxRuns
    /\ run' = [pc |-> "running", test |-> 1, retry |-> 0, end |-> 0]
    /\ runs' = runs + 1
    /\ tries' = [k \in 1..Len(Battery) |-> 0]
    /\ passed' = [k \in 1..Len(Battery) |-> 0]
    /\ runRet' = NoRunRet
    /\ base' = Len(results)
    /\ UNCHANGED <<cfg, results, notified, calls, snap, direct>>

(* A retry loop without the break: it keeps trying after a success. *)
RetryDecisionKeepsTrying(err, retry) ==
    IF retry = cfg.Retries - 1 THEN (IF err THEN "abort" ELSE "next") ELSE "again"

(* A retry loop that goes on to the next test when the retries are used up. *)
RetryDecisionGoesOn(err, retry) ==
    IF ~err \/ retry = cfg.Retries - 1 THEN "next" ELSE "again"

(* RunAll, after an attempt: "next" leaves the retry loop for the next     *)
(* test, "abort" returns the error, "again" retries.                       *)
RetryDecision(err, retry) ==
    IF ~err THEN "next"
    ELSE IF retry = cfg.Retries - 1 THEN "abort"
    ELSE "again"

(* RunAll: one attempt of the current test and what the loop does next. *)
RunAllAttempt(e) ==
    /\ UNCHANGED <<gpioVars, intVars, thermVars, restVars>>
    /\ run.pc = "running" /\ run.test <= Len(Battery) /\ run.retry < cfg.Retries
    /\ LET k == run.test
           out == TestFn(k, e)
           decision == RetryDecision(out.err, run.retry)
       IN /\ recordResult(out.recs)
          /\ tries' = [tries EXCEPT ![k] = @ + 1]
          /\ passed' = IF out.err THEN passed ELSE [passed EXCEPT ![k] = tries[k] + 1]
          /\ IF decision = "next"
             THEN /\ run' = [run EXCEPT !.test = k + 1, !.retry = 0]
                  /\ UNCHANGED runRet
             ELSE IF decision = "abort"
             THEN /\ run' = [run EXCEPT !.pc = "returned",
                                         !.end = Len(results) + Len(out.recs)]
                  /\ runRet' = [res |-> "error", test |-> k, attempt |-> tries[k] + 1]
             ELSE /\ run' = [run EXCEPT !.retry = @ + 1]
                  /\ UNCHANGED runRet
    /\ UNCHANGED <<cfg, runs, base, snap, direct>>

(* RunAll: the retry loop of a test ends because retry < Retries is false. *)
RunAllSkip ==
    /\ UNCHANGED <<gpioVars, intVars, thermVars, restVars>>
    /\ run.pc = "running" /\ run.test <= Len(Battery) /\ ~(run.retry < cfg.Retries)
    /\ run' = [run EXCEPT !.test = @ + 1, !.retry = 0]
    /\ UNCHANGED <<cfg, results, notified, runs, tries, passed, runRet, base, calls, snap,
                   direct>>

(* RunAll: the battery is over, return nil. *)
RunAllReturn ==
    /\ UNCHANGED <<gpioVars, intVars, thermVars, restVars>>
    /\ run.pc = "running" /\ run.test > Len(Battery)
    /\ run' = [run EXCEPT !.pc = "returned", !.end = Len(results)]
    /\ runRet' = [res |-> "nil", test |-> 0, attempt |-> 0]
    /\ UNCHANGED <<cfg, results, notified, runs, tries, passed, base, calls, snap, direct>>

(* GetResults, called by the caller of the manager between its other      *)
(* calls.                                                                  *)
GetResults ==
    /\ UNCHANGED <<gpioVars, intVars, thermVars, restVars>>
    /\ run.pc # "running" /\ ~snap.taken
    /\ snap' = SnapshotOf(results)
    /\ UNCHANGED <<cfg, results, notified, run, runs, tries, passed, runRet, base, calls,
                   direct>>

(* The caller overwrites the first item of the slice it was given; a slice *)
(* that shared the manager's array would take the history with it.         *)
ModifySnapshot ==
    /\ UNCHANGED <<gpioVars, intVars, thermVars, restVars>>
    /\ snap.taken /\ Len(snap.items) > 0 /\ snap.items[1] # Scribble
    /\ snap' = [snap EXCEPT !.items[1] = Scribble]
    /\ results' = IF snap.shared /\ Len(results) > 0
                  THEN [results EXCEPT ![1] = Scribble] ELSE results
    /\ UNCHANGED <<cfg, notified, run, runs, tries, passed, runRet, base, calls, direct>>

(* TestGPIO, TestPower, TestThermal or TestSecurity called by the caller   *)
(* of the manager on its own, between its other calls: the results it      *)
(* records, the callbacks, and the error or nil it returns.                *)
TestCall(k, e) ==
    /\ UNCHANGED <<gpioVars, intVars, thermVars, restVars>>
    /\ run.pc # "running" /\ direct.n < MaxDirect
    /\ LET out == TestFn(k, e)
       IN /\ recordResult(out.recs)
          /\ direct' = [n |-> direct.n + 1, test |-> k,
                        res |-> IF out.err THEN "error" ELSE "nil"]
    /\ UNCHANGED <<cfg, run, runs, tries, passed, runRet, base, snap>>

DiagNext ==
    \/ RunAll
    \/ \E k \in 1..Len(Battery) : \E e \in EnvsOf(k) : TestCall(k, e)
    \/ GetResults
    \/ ModifySnapshot
    \/ \E e \in EnvsOf(run.test) : RunAllAttempt(e)
    \/ RunAllSkip
    \/ RunAllReturn

(***************************************************************************)
(* Thermal monitor: thermal                                                *)
(***************************************************************************)
cpuTempWarning == 70
gpuTempWarning == 70
ambientWarning == 45
cpuTempCritical == 80
gpuTempCritical == 80
ambientCritical == 50

fanSpeedLow == 25
fanSpeedMedium == 50
fanSpeedHigh == 100

(* readTemp returns raw / 1000.0 for the raw value of the sensor file, in  *)
(* millidegrees.  A temperature is held as its raw value, and Celsius(d)   *)
(* is the raw value of d degrees: raw / 1000.0 >= d exactly when           *)
(* raw >= Celsius(d), for the whole d the thresholds are.                  *)
Celsius(d) == 1000 * d

(* The raw values the sensors show: 35, 40, 75.6 and 85 degrees, for the   *)
(* ambient sensor 40, 45 and 85; and the speeds callers ask SetFanSpeed    *)
(* for.                                                                    *)
Temps == {35000, 40000, 75600, 85000}
AmbientTemps == {40000, 45000, 85000}
SpeedInputs == {10, 60}

Zones == <<"cpu", "gpu", "ambient">>

(* The readings of zone z: the ambient sensor has lower thresholds. *)
TempsOf(z) == IF z = 3 THEN AmbientTemps ELSE Temps

WarningOf(z) == IF z = 1 THEN cpuTempWarning ELSE IF z = 2 THEN gpuTempWarning
                ELSE ambientWarning
CriticalOf(z) == IF z = 1 THEN cpuTempCritical ELSE IF z = 2 THEN gpuTempCritical
                 ELSE ambientCritical

(* The text updateThermalState appends to its warnings for a zone whose     *)
(* reading is in a band.                                                   *)
WarningText(z, band) ==
    IF z = 1 THEN (IF band = "critical" THEN "CPU temperature critical"
                   ELSE "CPU temperature warning")
    ELSE IF z = 2 THEN (IF band = "critical" THEN "GPU temperature critical"
                        ELSE "GPU temperature warning")
    ELSE (IF band = "critical" THEN "Ambient temperature critical"
          ELSE "Ambient temperature warning")

(* The zero ThermalState. *)
NoArg == [temp |-> [z \in 1..Len(Zones) |-> 0], FanSpeed |-> 0, Throttled |-> FALSE,
          Warnings |-> {}]

(* A Monitor call between two ticks: pc is the position of the call, zone  *)
(* and warnings are the locals of updateThermalState, arg is the state a   *)
(* running callback was passed, failed is whether a read of this call has  *)
(* failed, ret is what the call returned and changed is whether the call's *)
(* latest tick has stored a new temperature into Monitor.state.            *)
IdleTick == [pc |-> "idle", zone |-> 1, warnings |-> {}, arg |-> NoArg, failed |-> FALSE,
             ret |-> "none", changed |-> FALSE]

(* No Monitor call is running. *)
StoppedTick == [IdleTick EXCEPT !.pc = "off"]

(* The Monitor call after a read of its tick failed, as a retrying loop    *)
(* would leave it.                                                         *)
AfterReadErrorRetries == [IdleTick EXCEPT !.failed = TRUE]

(* The Monitor call after a read of its tick failed: updateThermalState    *)
(* returns the error and Monitor returns it wrapped.                       *)
AfterReadError == [StoppedTick EXCEPT !.failed = TRUE, !.ret = "error"]

(* The call that returned in the step just taken: the snapshot it left,    *)
(* and fan, what became of its SetPWMDutyCycle call: "none" when it made   *)
(* none.  NoThermalRet after a step in which no call returned.             *)
NoThermalRet == [op |-> "none", res |-> "none", maxTemp |-> 0, FanSpeed |-> 0,
                 Throttled |-> FALSE, fan |-> "none"]

(* New, with a fan pin, runs InitializeFanControl, which leaves the fan at *)
(* the low speed.  The monitors here have both callbacks or none.          *)
ThermalInit ==
    /\ tcfg \in [fanPin : BOOLEAN, throttlePin : BOOLEAN, allZones : BOOLEAN,
                 onWarning : BOOLEAN, onCritical : BOOLEAN]
    /\ tcfg.onWarning = tcfg.onCritical
    /\ tstate = [temp |-> [z \in 1..Len(Zones) |-> 0],
                 FanSpeed |-> IF tcfg.fanPin THEN fanSpeedLow ELSE 0,
                 Throttled |-> FALSE, Warnings |-> {}]
    /\ tmux = "free"
    /\ tick = StoppedTick
    /\ tgpio = [duty |-> IF tcfg.fanPin THEN fanSpeedLow ELSE 0, throttle |-> FALSE]
    /\ tret = NoThermalRet
    /\ fanInit = "none"

(* Whether the monitor has a path for zone z: the CPU path always, the     *)
(* GPU and ambient paths in the configurations with all zones.             *)
HasPath(z) == z = 1 \/ tcfg.allZones

MaxTemp(st) == IF st.temp[2] > st.temp[1] THEN st.temp[2] ELSE st.temp[1]

(* ThermalState.addWarning *)
addWarning(w, text) == [w EXCEPT !.state.Warnings = @ \cup {text}]

(* setThrottlingLocked, on the pair w of Monitor.state and the controller; *)
(* ok is whether SetPinState succeeds.                                     *)
setThrottlingLocked(w, enabled, ok) ==
    IF ~tcfg.throttlePin THEN w
    ELSE LET w1 == IF ok THEN [w EXCEPT !.gpio.throttle = enabled]
                   ELSE addWarning(w, "Failed to set throttling state")
         IN [w1 EXCEPT !.state.Throttled = enabled]

(* setFanSpeedLocked; ok is whether SetPWMDutyCycle succeeds. *)
setFanSpeedLocked(w, dutyCycle, ok) ==
    IF ~tcfg.fanPin THEN [w |-> w, err |-> FALSE]
    ELSE LET d == IF dutyCycle < fanSpeedLow THEN fanSpeedLow
                  ELSE IF dutyCycle > fanSpeedHigh THEN fanSpeedHigh ELSE dutyCycle
         IN IF ~ok THEN [w |-> [w EXCEPT !.fan = "failed"], err |-> TRUE]
            ELSE [w |-> [w EXCEPT !.gpio.duty = d, !.state.FanSpeed = d,
                                  !.fan = "written"],
                  err |-> FALSE]

(* The raw values between 35 and 80 degrees at which the float64 product  *)
(* speedRange * (tempAbove / tempRange) of updateCooling comes out just    *)
(* under the whole number it equals in exact arithmetic: the quotient      *)
(* tempAbove / tempRange is rounded down, and so is the product.  At every *)
(* other raw value the product is further from a whole number than the     *)
(* rounding error.                                                         *)
RoundsBelow ==
    {36400, 37800, 43400, 44800, 50400, 51800, 65800, 68600,
     70600, 70800, 71600, 71800, 72600, 72800, 73600, 73800, 74600, 74800,
     75600, 75800, 76600, 76800, 77600, 77800, 78600, 78800, 79600, 79800}

(* uint32(speedRange * (tempAbove / tempRange)) for the maximum            *)
(* temperature maxTemp, above and range in millidegrees: the conversion    *)
(* truncates the float64 product.                                          *)
Interpolated(speedRange, above, range, maxTemp) ==
    LET whole == (speedRange * above) \div range
    IN IF maxTemp \in RoundsBelow THEN whole - 1 ELSE whole

(* The duty cycle updateCooling computes for a maximum temperature.  The   *)
(* two clamps of each interpolating case never apply: within its band the  *)
(* interpolated value lies between the two speeds.                         *)
CoolingDuty(maxTemp) ==
    IF maxTemp >= Celsius(cpuTempCritical) THEN fanSpeedHigh
    ELSE IF maxTemp >= Celsius(cpuTempWarning)
    THEN fanSpeedMedium + Interpolated(fanSpeedHigh - fanSpeedMedium,
                                       maxTemp - Celsius(cpuTempWarning),
                                       Celsius(cpuTempCritical) - Celsius(cpuTempWarning),
                                       maxTemp)
    ELSE IF maxTemp >= Celsius(cpuTempWarning) \div 2
    THEN fanSpeedLow + Interpolated(fanSpeedMedium - fanSpeedLow,
                                    maxTemp - Celsius(cpuTempWarning) \div 2,
                                    Celsius(cpuTempWarning) - Celsius(cpuTempWarning) \div 2,
                                    maxTemp)
    ELSE fanSpeedLow

(* updateCooling: "Update fan speed if changed". *)
FanChanged(dutyCycle, current) == dutyCycle # current

(* The monitor's state and the controller as a call works on them, and     *)
(* what became of the call's SetPWMDutyCycle call.                         *)
Working == [state |-> tstate, gpio |-> tgpio, fan |-> "none"]

(* The body of updateCooling, under the lock. *)
Cooled(w, fanOk, throttleOk) ==
    LET maxTemp == MaxTemp(w.state)
        w1 == setThrottlingLocked(w, maxTemp >= Celsius(cpuTempCritical), throttleOk)
        dutyCycle == CoolingDuty(maxTemp)
    IN IF FanChanged(dutyCycle, w1.state.FanSpeed)
       THEN LET f == setFanSpeedLocked(w1, dutyCycle, fanOk)
            IN IF f.err THEN addWarning(f.w, "Failed to update fan speed") ELSE f.w
       ELSE w1

ThermalReturned(op, res, st, fan) ==
    tret' = [op |-> op, res |-> res, maxTemp |-> MaxTemp(st), FanSpeed |-> st.FanSpeed,
             Throttled |-> st.Throttled, fan |-> fan]

(* Monitor is called: it starts its ticker and waits. *)
MonitorStart ==
    /\ UNCHANGED <<gpioVars, intVars, diagVars, restVars>>
    /\ tick.pc = "off"
    /\ tick' = IdleTick
    /\ UNCHANGED <<tcfg, fanInit, tstate, tmux, tgpio>>
    /\ tret' = NoThermalRet

(* The context of the Monitor call is done between two ticks: Monitor      *)
(* returns ctx.Err().                                                      *)
MonitorCancel ==
    /\ UNCHANGED <<gpioVars, intVars, diagVars, restVars>>
    /\ tick.pc = "idle"
    /\ tick' = [StoppedTick EXCEPT !.ret = "cancelled"]
    /\ UNCHANGED <<tcfg, fanInit, tstate, tmux, tgpio>>
    /\ tret' = NoThermalRet

(* The Monitor loop's ticker fires: updateThermalState takes the write     *)
(* lock, which its deferred Unlock releases when it returns.               *)
TickStart ==
    /\ UNCHANGED <<gpioVars, intVars, diagVars, restVars>>
    /\ tick.pc = "idle" /\ tmux = "free"
    /\ tmux' = "tick"
    /\ tick' = [IdleTick EXCEPT !.pc = "read"]
    /\ UNCHANGED <<tcfg, fanInit, tstate, tgpio>>
    /\ tret' = NoThermalRet

(* updateThermalState moves on from zone z: to the next zone, or, after    *)
(* the last one, it stores the warnings and comes to call updateCooling.   *)
TickAdvance(z, warnings, st) ==
    LET changed == tick.changed \/ st.temp # tstate.temp IN
    IF z < Len(Zones)
    THEN /\ tick' = [IdleTick EXCEPT !.pc = "read", !.zone = z + 1, !.warnings = warnings,
                                     !.changed = changed]
         /\ tstate' = st
    ELSE /\ tick' = [IdleTick EXCEPT !.pc = "cooling", !.changed = changed]
         /\ tstate' = [st EXCEPT !.Warnings = warnings]

(* updateThermalState reads the temperature of the current zone.  A failed *)
(* read returns the error.  A reading in the warning or critical band      *)
(* calls the callback, with the lock held.                                 *)
TickRead(ok, temp) ==
    /\ UNCHANGED <<gpioVars, intVars, diagVars, restVars>>
    /\ tick.pc = "read"
    /\ UNCHANGED <<tcfg, fanInit, tgpio>>
    /\ LET z == tick.zone IN
       IF ~HasPath(z)
       THEN /\ TickAdvance(z, tick.warnings, tstate)
            /\ UNCHANGED tmux
            /\ tret' = NoThermalRet
       ELSE IF ~ok
       THEN /\ tick' = [AfterReadError EXCEPT !.changed = tick.changed]
            /\ tmux' = "free"
            /\ ThermalReturned("updateThermalState", "error", tstate, "none")
            /\ UNCHANGED tstate
       ELSE LET st == [tstate EXCEPT !.temp[z] = temp]
                band == IF temp >= Celsius(CriticalOf(z)) THEN "critical"
                        ELSE IF temp >= Celsius(WarningOf(z)) THEN "warning"
                        ELSE "normal"
                warnings == IF band = "normal" THEN tick.warnings
                            ELSE tick.warnings \cup {WarningText(z, band)}
            IN /\ UNCHANGED tmux
               /\ tret' = NoThermalRet
               /\ IF (band = "critical" /\ tcfg.onCritical)
                     \/ (band = "warning" /\ tcfg.onWarning)
                  THEN /\ tick' = [IdleTick EXCEPT !.pc = "callback", !.zone = z,
                                                   !.warnings = warnings, !.arg = st,
                                                   !.changed = tick.changed
                                                               \/ st # tstate]
                       /\ tstate' = st
                  ELSE TickAdvance(z, warnings, st)

(* The callback returns to updateThermalState. *)
CallbackReturn ==
    /\ UNCHANGED <<gpioVars, intVars, diagVars, restVars>>
    /\ tick.pc = "callback"
    /\ TickAdvance(tick.zone, tick.warnings, tstate)
    /\ UNCHANGED <<tcfg, fanInit, tmux, tgpio>>
    /\ tret' = NoThermalRet

(* The callback calls GetState of the monitor that called it. *)
CallbackGetState ==
    /\ UNCHANGED <<gpioVars, intVars, diagVars, restVars>>
    /\ tick.pc = "callback"
    /\ tick' = [tick EXCEPT !.pc = "callback_getstate"]
    /\ UNCHANGED <<tcfg, fanInit, tstate, tmux, tgpio>>
    /\ tret' = NoThermalRet

(* GetState: the whole call runs under the read lock.  The caller is a     *)
(* client goroutine or the callback of the tick.                           *)
GetState(who) ==
    /\ UNCHANGED <<gpioVars, intVars, diagVars, restVars>>
    /\ who = "tick" => tick.pc = "callback_getstate"
    /\ tmux = "free"
    /\ ThermalReturned("GetState", "ok", tstate, "none")
    /\ tick' = IF who = "tick" THEN [tick EXCEPT !.pc = "callback"] ELSE tick
    /\ UNCHANGED <<tcfg, fanInit, tstate, tmux, tgpio>>

(* SetFanSpeed: the whole call runs under the write lock; the error of     *)
(* setFanSpeedLocked is dropped.                                           *)
SetFanSpeed(speed, ok) ==
    /\ UNCHANGED <<gpioVars, intVars, diagVars, restVars>>
    /\ tmux = "free"
    /\ LET w == setFanSpeedLocked(Working, speed, ok).w
       IN /\ tstate' = w.state
          /\ tgpio' = w.gpio
          /\ ThermalReturned("SetFanSpeed", "ok", w.state, w.fan)
    /\ UNCHANGED <<tcfg, fanInit, tmux, tick>>

(* updateCooling takes the write lock itself.  Called by                   *)
(* updateThermalState, which holds that lock, it waits; called on its own, *)
(* as the package's tests call it, it runs.  The tick's call, once it has  *)
(* run, returns into updateThermalState, which returns nil.                *)
updateCooling(who, fanOk, throttleOk) ==
    /\ UNCHANGED <<gpioVars, intVars, diagVars, restVars>>
    /\ who = "tick" => tick.pc = "cooling"
    /\ tmux = "free"
    /\ LET w == Cooled(Working, fanOk, throttleOk)
       IN /\ tstate' = w.state
          /\ tgpio' = w.gpio
          /\ ThermalReturned(IF who = "tick" THEN "updateThermalState" ELSE "updateCooling",
                             "ok", w.state, w.fan)
    /\ tick' = IF who = "tick" THEN IdleTick ELSE tick
    /\ UNCHANGED <<tcfg, fanInit, tmux>>

(* InitializeFanControl, called on a monitor New has returned: without a   *)
(* fan pin it returns nil; with one it calls ConfigurePWM with the low     *)
(* speed as the duty cycle, which writes the channel anew, and returns the *)
(* error if that failed.  The monitor's lock is not held.                  *)
InitializeFanControl(ok) ==
    /\ UNCHANGED <<gpioVars, intVars, diagVars, restVars>>
    /\ fanInit = "none"
    /\ UNCHANGED <<tcfg, tstate, tmux, tick>>
    /\ IF ~tcfg.fanPin
       THEN /\ ThermalReturned("InitializeFanControl", "ok", tstate, "none")
            /\ UNCHANGED <<tgpio, fanInit>>
       ELSE IF ~ok
       THEN /\ ThermalReturned("InitializeFanControl", "error", tstate, "none")
            /\ UNCHANGED <<tgpio, fanInit>>
       ELSE /\ tgpio' = [tgpio EXCEPT !.duty = fanSpeedLow]
            /\ fanInit' = "enable"
            /\ tret' = NoThermalRet

(* InitializeFanControl calls EnablePWM and returns its error. *)
InitializeFanControlEnable(ok) ==
    /\ UNCHANGED <<gpioVars, intVars, diagVars, restVars>>
    /\ fanInit = "enable"
    /\ UNCHANGED <<tcfg, tstate, tmux, tick, tgpio>>
    /\ IF ok
       THEN /\ fanInit' = "lock"
            /\ tret' = NoThermalRet
       ELSE /\ fanInit' = "none"
            /\ ThermalReturned("InitializeFanControl", "error", tstate, "none")

(* InitializeFanControl takes the write lock, stores the low speed into    *)
(* Monitor.state, unlocks and returns nil.                                 *)
InitializeFanControlStore ==
    /\ UNCHANGED <<gpioVars, intVars, diagVars, restVars>>
    /\ fanInit = "lock" /\ tmux = "free"
    /\ tstate' = [tstate EXCEPT !.FanSpeed = fanSpeedLow]
    /\ fanInit' = "none"
    /\ ThermalReturned("InitializeFanControl", "ok", tstate', "none")
    /\ UNCHANGED <<tcfg, tmux, tick, tgpio>>

ThermalNext ==
    \/ \E ok \in BOOLEAN : InitializeFanControl(ok)
    \/ \E ok \in BOOLEAN : InitializeFanControlEnable(ok)
    \/ InitializeFanControlStore
    \/ MonitorStart
    \/ MonitorCancel
    \/ TickStart
    \/ \E ok \in BOOLEAN, temp \in TempsOf(tick.zone) : TickRead(ok, temp)
    \/ CallbackReturn
    \/ CallbackGetState
    \/ \E who \in {"client", "tick"} : GetState(who)
    \/ \E speed \in SpeedInputs, ok \in BOOLEAN : SetFanSpeed(speed, ok)
    \/ \E who \in {"client", "tick"}, fanOk \in BOOLEAN, throttleOk \in BOOLEAN :
          updateCooling(who, fanOk, throttleOk)

(***************************************************************************)
(* gpio.Controller, call by call                                           *)
(*                                                                         *)
(* The methods of the controller as functions from the controller before a *)
(* call to the controller after it and the outcome, for a single caller    *)
(* whose calls do not overlap.  A controller c has the fields of           *)
(* Controller; c.hw is the level each pin object was last written, low     *)
(* before any; c.loops is the pwmLoop goroutines running for each name;    *)
(* c.hung is whether a call has blocked for ever.                          *)
(***************************************************************************)
MaxCalls == 4

NoPwm == [present |-> FALSE, pin |-> "nil", enabled |-> FALSE, dutyCycle |-> 0,
          configDuty |-> 0]

(* New, with or without the WithSimulation option. *)
NewController(sim) ==
    [simulation |-> sim, enabled |-> TRUE,
     pins |-> [n \in Names |-> "absent"],
     simPins |-> [n \in Names |-> "absent"],
     hw |-> [n \in Names |-> "low"],
     pwm |-> [n \in PwmNames |-> NoPwm],
     loops |-> [n \in PwmNames |-> <<>>],
     hung |-> FALSE]

(* What a call leaves and returns: the controller, the error or "ok", and  *)
(* the level or the duty cycle the getters return.                         *)
Outcome(c, res) == [c |-> c, res |-> res, level |-> "none", duty |-> 0]
OutcomeLevel(c, level) == [c |-> c, res |-> "ok", level |-> level, duty |-> 0]
OutcomeDuty(c, duty) == [c |-> c, res |-> "ok", level |-> "none", duty |-> duty]

(* The duty cycle check of ConfigurePWM and SetPWMDutyCycle, one too high. *)
DutyRejectedAbove101(d) == d > 101

(* The duty cycle check of ConfigurePWM and SetPWMDutyCycle. *)
DutyRejected(d) == d > 100

(* A pwmLoop goroutine: cur is whether it runs on the pwmState installed   *)
(* under the name, d is the duty cycle of the replaced pwmState it runs on *)
(* otherwise, pc is where it stands and duty is the duty cycle it read for *)
(* the cycle it is in.                                                     *)
NewLoop == [cur |-> TRUE, d |-> 0, pc |-> "select", duty |-> 0]

(* The loops of name n once ConfigurePWM has replaced its pwmState: the    *)
(* loop of the replaced one goes on, on an object no call reaches.         *)
Orphaned(c, n) ==
    [i \in 1..Len(c.loops[n]) |->
        IF c.loops[n][i].cur
        THEN [c.loops[n][i] EXCEPT !.cur = FALSE, !.d = c.pwm[n].dutyCycle]
        ELSE c.loops[n][i]]

(* pwmLoop, one step of loop i of name n: the timer fires and the duty     *)
(* cycle is read; the first write of the cycle; the write that ends the    *)
(* high phase.                                                             *)
SeqPwmLoop(c, n, i) ==
    LET l == c.loops[n][i]
    IN IF l.pc = "select"
       THEN [c EXCEPT !.loops[n][i].pc = "out",
                      !.loops[n][i].duty = IF l.cur THEN c.pwm[n].dutyCycle ELSE l.d]
       ELSE IF l.pc = "out"
       THEN [c EXCEPT !.hw[n] = IF l.duty = 0 THEN "low" ELSE "high",
                      !.loops[n][i].pc = IF l.duty \in {0, 100} THEN "select" ELSE "on",
                      !.loops[n][i].duty = 0]
       ELSE [c EXCEPT !.hw[n] = "low", !.loops[n][i].pc = "select"]

SeqConfigurePin(c, n, kind, ok) ==
    IF ~c.enabled THEN Outcome(c, "disabled")
    ELSE IF c.simulation
    THEN LET c1 == [c EXCEPT !.pins[n] = kind, !.simPins[n] = "low"]
         IN IF kind = "real" /\ ~ok THEN Outcome(c1, "hwerr")
            ELSE Outcome(c1, "ok")
    ELSE IF kind = "nil" THEN Outcome(c, "invalid")
    ELSE IF ~ok THEN Outcome(c, "hwerr")
    ELSE Outcome([c EXCEPT !.pins[n] = "real"], "ok")

SeqSetPinState(c, n, high, ok) ==
    IF c.simulation
    THEN IF c.simPins[n] = "absent" THEN Outcome(c, "notfound")
         ELSE LET c1 == [c EXCEPT !.simPins[n] = LevelOf(high)]
              IN IF c.pins[n] = "real"
                 THEN Outcome([c1 EXCEPT !.hw[n] = LevelOf(high)],
                              IF ok THEN "ok" ELSE "hwerr")
                 ELSE Outcome(c1, "ok")
    ELSE IF c.pins[n] = "absent" THEN Outcome(c, "notfound")
    ELSE IF c.pins[n] = "nil" THEN Outcome(c, "invalid")
    ELSE Outcome([c EXCEPT !.hw[n] = LevelOf(high)], IF ok THEN "ok" ELSE "hwerr")

SeqGetPinState(c, n) ==
    IF c.simulation
    THEN IF c.simPins[n] = "absent" THEN Outcome(c, "notfound")
         ELSE OutcomeLevel(c, IF c.pins[n] = "real" THEN c.hw[n] ELSE c.simPins[n])
    ELSE IF c.pins[n] = "absent" THEN Outcome(c, "notfound")
    ELSE IF c.pins[n] = "nil" THEN Outcome(c, "invalid")
    ELSE OutcomeLevel(c, c.hw[n])

SeqConfigurePWM(c, n, kind, duty, inOk, outOk) ==
    LET fresh == [present |-> TRUE, pin |-> kind, enabled |-> FALSE, dutyCycle |-> duty,
                  configDuty |-> duty]
    IN IF ~c.enabled THEN Outcome(c, "disabled")
       ELSE IF DutyRejected(duty) THEN Outcome(c, "invalid")
       ELSE IF c.simulation
       THEN Outcome([c EXCEPT !.pwm[n] = fresh, !.simPins[n] = "low"], "ok")
       ELSE IF kind = "nil" THEN Outcome(c, "invalid")
       ELSE IF ~inOk THEN Outcome(c, "hwerr")
       ELSE IF ~outOk THEN Outcome([c EXCEPT !.hw[n] = "low"], "hwerr")
       ELSE Outcome([c EXCEPT !.hw[n] = "low", !.pwm[n] = fresh,
                              !.loops[n] = Orphaned(c, n)], "ok")

(* In hardware mode EnablePWM starts a generation loop on the pwmState. *)
SeqEnablePWM(c, n) ==
    IF ~c.pwm[n].present THEN Outcome(c, "notfound")
    ELSE IF c.pwm[n].enabled THEN Outcome(c, "ok")
    ELSE IF c.simulation THEN Outcome([c EXCEPT !.pwm[n].enabled = TRUE], "ok")
    ELSE Outcome([c EXCEPT !.pwm[n].enabled = TRUE,
                           !.loops[n] = Append(@, NewLoop)], "ok")

(* In hardware mode DisablePWM waits for the loop of the pwmState, which   *)
(* ends the cycle it is in and leaves, and then writes the pin low.        *)
SeqDisablePWM(c, n, ok) ==
    IF ~c.pwm[n].present THEN Outcome(c, "notfound")
    ELSE IF ~c.pwm[n].enabled THEN Outcome(c, "ok")
    ELSE LET c1 == [c EXCEPT !.pwm[n].enabled = FALSE]
         IN IF c.simulation THEN Outcome(c1, "ok")
            ELSE LET c2 == [c1 EXCEPT !.loops[n] = SelectSeq(@, LAMBDA l : ~l.cur)]
                 IN IF c.pwm[n].pin = "nil" THEN Outcome(c2, "ok")
                    ELSE Outcome([c2 EXCEPT !.hw[n] = "low"],
                                 IF ok THEN "ok" ELSE "hwerr")

SeqSetPWMDutyCycle(c, n, d, ok) ==
    IF ~c.pwm[n].present THEN Outcome(c, "notfound")
    ELSE IF DutyRejected(d) THEN Outcome(c, "invalid")
    ELSE LET c1 == [c EXCEPT !.pwm[n].dutyCycle = d]
         IN IF c.pwm[n].enabled /\ ~c.simulation /\ c.pwm[n].pin # "nil" /\ d \in {0, 100}
            THEN Outcome([c1 EXCEPT !.hw[n] = IF d = 0 THEN "low" ELSE "high"],
                         IF ok THEN "ok" ELSE "hwerr")
            ELSE Outcome(c1, "ok")

(* GetPWMState returns pwmState.config, the configuration ConfigurePWM was *)
(* given.                                                                  *)
SeqGetPWMState(c, n) ==
    IF ~c.pwm[n].present THEN Outcome(c, "notfound")
    ELSE OutcomeDuty(c, c.pwm[n].configDuty)

(* Close in hardware mode calls DisablePWM for every channel while it      *)
(* holds the write lock DisablePWM's read lock waits for: with a channel   *)
(* configured the call never returns.  Without one it writes the pins     *)
(* that are not nil low and returns the error of a write that failed.      *)
SeqClose(c, ok) ==
    IF c.simulation THEN Outcome([c EXCEPT !.enabled = FALSE], "ok")
    ELSE IF \E n \in PwmNames : c.pwm[n].present THEN Outcome([c EXCEPT !.hung = TRUE], "hang")
    ELSE Outcome([c EXCEPT !.enabled = FALSE,
                           !.hw = [n \in Names |-> IF c.pins[n] = "real" THEN "low"
                                                   ELSE c.hw[n]]],
                 IF ok \/ \A n \in Names : c.pins[n] # "real" THEN "ok" ELSE "hwerr")

(* A call: the method, the name, the pin object passed (none or one), the  *)
(* level or duty cycle passed, and whether the pin's first and second      *)
(* capability call in it succeed.                                          *)
CallOf(op, name, kind, high, duty, ok, ok2) ==
    [op |-> op, name |-> name, kind |-> kind, high |-> high, duty |-> duty, ok |-> ok,
     ok2 |-> ok2]

NoCall == CallOf("none", "led", "nil", FALSE, 0, TRUE, TRUE)

Calls ==
    {CallOf("ConfigurePin", n, k, FALSE, 0, ok, TRUE) :
        n \in Names, k \in {"nil", "real"}, ok \in BOOLEAN}
    \cup {CallOf("SetPinState", n, "nil", h, 0, ok, TRUE) :
        n \in Names, h \in BOOLEAN, ok \in BOOLEAN}
    \cup {CallOf("GetPinState", n, "nil", FALSE, 0, TRUE, TRUE) : n \in Names}
    \cup {CallOf("ConfigurePWM", n, k, FALSE, d, ok, ok2) :
        n \in PwmNames, k \in {"nil", "real"}, d \in DutyInputs, ok \in BOOLEAN,
        ok2 \in BOOLEAN}
    \cup {CallOf("EnablePWM", n, "nil", FALSE, 0, TRUE, TRUE) : n \in PwmNames}
    \cup {CallOf("DisablePWM", n, "nil", FALSE, 0, ok, TRUE) : n \in PwmNames, ok \in BOOLEAN}
    \cup {CallOf("SetPWMDutyCycle", n, "nil", FALSE, d, ok, TRUE) :
        n \in PwmNames, d \in DutyInputs, ok \in BOOLEAN}
    \cup {CallOf("GetPWMState", n, "nil", FALSE, 0, TRUE, TRUE) : n \in PwmNames}
    \cup {CallOf("Close", "led", "nil", FALSE, 0, ok, TRUE) : ok \in BOOLEAN}

(* The calls of a client whose pin objects never fail. *)
SoundCalls == {call \in Calls : call.kind = "real" /\ call.ok /\ call.ok2}
    \cup {call \in Calls : call.op \notin {"ConfigurePin", "ConfigurePWM"} /\ call.ok}

Apply(c, call) ==
    CASE call.op = "ConfigurePin" -> SeqConfigurePin(c, call.name, call.kind, call.ok)
      [] call.op = "SetPinState" -> SeqSetPinState(c, call.name, call.high, call.ok)
      [] call.op = "GetPinState" -> SeqGetPinState(c, call.name)
      [] call.op = "ConfigurePWM" ->
             SeqConfigurePWM(c, call.name, call.kind, call.duty, call.ok, call.ok2)
      [] call.op = "EnablePWM" -> SeqEnablePWM(c, call.name)
      [] call.op = "DisablePWM" -> SeqDisablePWM(c, call.name, call.ok)
      [] call.op = "SetPWMDutyCycle" -> SeqSetPWMDutyCycle(c, call.name, call.duty, call.ok)
      [] call.op = "GetPWMState" -> SeqGetPWMState(c, call.name)
      [] call.op = "Close" -> SeqClose(c, call.ok)

NoResult == [res |-> "none", level |-> "none", duty |-> 0]
ResultOf(out) == [res |-> out.res, level |-> out.level, duty |-> out.duty]

(* No SetPWMDutyCycle has succeeded on the channel as it is configured. *)
NoDuty == -1

ApiInit ==
    /\ api \in {NewController(sim) : sim \in BOOLEAN}
    /\ last = [call |-> NoCall, result |-> NoResult, before |-> api, after |-> api,
               okPin |-> [n \in Names |-> FALSE], setDuty |-> [n \in PwmNames |-> NoDuty]]
    /\ twin = [sim |-> NewController(TRUE), hw |-> NewController(FALSE)]
    /\ twinRes = [sim |-> NoResult, hw |-> NoResult]
    /\ ncalls = 0

(* The client makes its next call, once the one before has returned.       *)
(* last.before and last.after are the controller as the call found it and  *)
(* as it left it; last.okPin tells the names a ConfigurePin has succeeded for, and        *)
(* last.setDuty the duty cycle of the last SetPWMDutyCycle that succeeded  *)
(* on each channel since it was configured.                                *)
ApiCall(call) ==
    /\ UNCHANGED <<gpioVars, intVars, diagVars, thermVars, secVars, powVars>>
    /\ ncalls < MaxCalls /\ ~api.hung
    /\ ncalls' = ncalls + 1
    /\ LET out == Apply(api, call)
       IN /\ api' = out.c
          /\ last' = [call |-> call, result |-> ResultOf(out), before |-> api,
                       after |-> out.c,
                       okPin |-> IF call.op = "ConfigurePin" /\ out.res = "ok"
                                 THEN [last.okPin EXCEPT ![call.name] = TRUE]
                                 ELSE last.okPin,
                       setDuty |-> IF call.op = "SetPWMDutyCycle" /\ out.res = "ok"
                                   THEN [last.setDuty EXCEPT ![call.name] = call.duty]
                                   ELSE IF call.op = "ConfigurePWM" /\ out.res = "ok"
                                   THEN [last.setDuty EXCEPT ![call.name] = NoDuty]
                                   ELSE last.setDuty]
    /\ UNCHANGED <<twin, twinRes>>

(* A pwmLoop goroutine of the controller takes a step between two calls. *)
ApiLoop(n, i) ==
    /\ UNCHANGED <<gpioVars, intVars, diagVars, thermVars, secVars, powVars>>
    /\ i \in 1..Len(api.loops[n])
    /\ api' = SeqPwmLoop(api, n, i)
    /\ UNCHANGED <<last, twin, twinRes, ncalls>>

ApiNext ==
    \/ \E call \in Calls : ApiCall(call)
    \/ \E n \in PwmNames, i \in 1..MaxCalls : ApiLoop(n, i)

(* The same call is made on the two controllers: without a pin object on   *)
(* the simulated one, with a pin object that never fails on the other.     *)
TwinCall(call) ==
    /\ UNCHANGED <<gpioVars, intVars, diagVars, thermVars, secVars, powVars>>
    /\ ncalls < MaxCalls /\ ~twin.sim.hung /\ ~twin.hw.hung
    /\ ncalls' = ncalls + 1
    /\ LET s == Apply(twin.sim, [call EXCEPT !.kind = "nil"])
           h == Apply(twin.hw, call)
       IN /\ twin' = [sim |-> s.c, hw |-> h.c]
          /\ twinRes' = [sim |-> ResultOf(s), hw |-> ResultOf(h)]
    /\ UNCHANGED <<api, last>>

(* A pwmLoop goroutine of the hardware controller takes a step. *)
TwinLoop(n, i) ==
    /\ UNCHANGED <<gpioVars, intVars, diagVars, thermVars, secVars, powVars>>
    /\ i \in 1..Len(twin.hw.loops[n])
    /\ twin' = [twin EXCEPT !.hw = SeqPwmLoop(twin.hw, n, i)]
    /\ UNCHANGED <<api, last, twinRes, ncalls>>

TwinNext ==
    \/ \E call \in SoundCalls : TwinCall(call)
    \/ \E n \in PwmNames, i \in 1..MaxCalls : TwinLoop(n, i)

(***************************************************************************)
(* secure.Manager                                                          *)
(***************************************************************************)
MaxTicks == 2

TamperStates == [CaseOpen : BOOLEAN, MotionDetected : BOOLEAN, VoltageNormal : BOOLEAN]

(* The zero TamperState. *)
NoTamperState == [CaseOpen |-> FALSE, MotionDetected |-> FALSE, VoltageNormal |-> FALSE]

(* The three sensors checkSecurity reads, in the order it reads them. *)
Sensors == <<"case", "motion", "voltage">>

NoSecureTick == [read |-> "none", new |-> NoTamperState, called |-> FALSE,
                 arg |-> NoTamperState, logged |-> FALSE, saved |-> FALSE,
                 saveArg |-> NoTamperState, res |-> "none"]

(* The Monitor call: where it is, what it returned, whether its context is *)
(* done, and whether it started a tick with the context already done.      *)
NoSecureMonitor == [pc |-> "off", ret |-> "none", done |-> FALSE, late |-> FALSE]

(* The levels of the case, motion and voltage sensor pins, in the order of *)
(* Sensors; pc is the sensor a checkSecurity call in progress reads next,  *)
(* 0 when none is in progress; got is what its reads returned; seen is the *)
(* level triples that stood at some moment since the call began and agree  *)
(* with what its reads have returned.                                      *)
Levels == [1..Len(Sensors) -> BOOLEAN]
AtRest == [i \in 1..Len(Sensors) |-> i = 3]
NoSense == [levels |-> AtRest, pc |-> 0, got |-> AtRest, seen |-> {}]

(* Whether the level triple l agrees with the first n reads of got. *)
Agree(l, got, n) == \A i \in 1..n : l[i] = got[i]

(* The TamperState made of three reads. *)
StateOf(got) == [CaseOpen |-> got[1], MotionDetected |-> got[2], VoltageNormal |-> got[3]]

(* New: the manager starts from the state the store holds, when it has a   *)
(* store and LoadState succeeds, and from the zero state otherwise.        *)
SecureInit ==
    /\ scfg \in [onTamper : BOOLEAN, stateStore : BOOLEAN]
    /\ sstore \in [has : BOOLEAN, state : TamperStates, events : {0}]
    /\ scfg.stateStore \/ sstore = [has |-> FALSE, state |-> NoTamperState, events |-> 0]
    /\ sstore.has \/ sstore.state = NoTamperState
    /\ sstate = IF scfg.stateStore /\ sstore.has THEN sstore.state ELSE NoTamperState
    /\ smon = NoSecureMonitor
    /\ stick = NoSecureTick
    /\ nticks = 0
    /\ sense = NoSense

(* The tamper condition of checkSecurity, without its voltage term. *)
TamperedIgnoresVoltage(s) == s.CaseOpen \/ s.MotionDetected

(* The tamper condition of checkSecurity. *)
Tampered(s) == s.CaseOpen \/ s.MotionDetected \/ ~s.VoltageNormal

(* What checkSecurity returns after the store calls, were a store error    *)
(* to fail the check.                                                      *)
StoreOutcomeFails(logErr, saveErr) == IF logErr \/ saveErr THEN "error" ELSE "nil"

(* What checkSecurity returns after the store calls: their errors are      *)
(* printed and dropped.                                                    *)
StoreOutcome(logErr, saveErr) == "nil"

(* Monitor is called: it starts its ticker and waits. *)
SecureMonitor ==
    /\ UNCHANGED <<gpioVars, intVars, diagVars, thermVars, powVars, apiVars>>
    /\ smon.pc = "off"
    /\ smon' = [NoSecureMonitor EXCEPT !.pc = "idle"]
    /\ stick' = NoSecureTick
    /\ UNCHANGED <<scfg, sstate, sstore, nticks, sense>>

(* The context of the running Monitor call is cancelled. *)
SecureCancel ==
    /\ UNCHANGED <<gpioVars, intVars, diagVars, thermVars, powVars, apiVars>>
    /\ smon.pc = "idle" /\ ~smon.done
    /\ smon' = [smon EXCEPT !.done = TRUE]
    /\ UNCHANGED <<scfg, sstate, sstore, stick, nticks, sense>>

(* Monitor's select takes the ctx.Done() case and returns ctx.Err(). *)
SecureReturn ==
    /\ UNCHANGED <<gpioVars, intVars, diagVars, thermVars, powVars, apiVars>>
    /\ smon.pc = "idle" /\ smon.done /\ sense.pc = 0
    /\ smon' = [smon EXCEPT !.pc = "off", !.ret = "cancelled"]
    /\ UNCHANGED <<scfg, sstate, sstore, stick, nticks, sense>>

(* Whether a tick has been started with the context already done: that is *)
(* settled when the select takes the ticker case.  A call that runs as one *)
(* step starts here (sense.pc = 0); one that runs read by read started at  *)
(* checkSecurityLock, and a cancellation since then does not count.        *)
LateTick == smon.late \/ (sense.pc = 0 /\ smon.done)

(* Monitor's select takes the ticker case, which it may whenever the       *)
(* ticker has fired, the context done or not (a select with several ready  *)
(* cases takes any of them), and calls checkSecurity, under the manager's  *)
(* write lock.  failAt is the first sensor whose read fails, 0 when all    *)
(* three succeed; new is what the sensors show; logOk and saveOk are       *)
(* whether the store's LogEvent and SaveState succeed.  A failed read      *)
(* returns the error, which Monitor returns wrapped.                       *)
checkSecurityFrom(failAt, new, logOk, saveOk) ==
    /\ UNCHANGED <<gpioVars, intVars, diagVars, thermVars, powVars, apiVars>>
    /\ smon.pc = "idle"
    /\ nticks < MaxTicks
    /\ nticks' = nticks + 1
    /\ UNCHANGED scfg
    /\ IF failAt # 0
       THEN /\ stick' = [NoSecureTick EXCEPT !.read = Sensors[failAt], !.res = "error"]
            /\ smon' = [smon EXCEPT !.pc = "off", !.ret = "error", !.late = LateTick]
            /\ UNCHANGED <<sstate, sstore>>
       ELSE LET tamper == Tampered(new)
                called == tamper /\ scfg.onTamper
                logged == tamper /\ scfg.stateStore
                saved == scfg.stateStore
                res == StoreOutcome(logged /\ ~logOk, saved /\ ~saveOk)
            IN /\ stick' = [read |-> "ok", new |-> new, called |-> called,
                            arg |-> IF called THEN new ELSE NoTamperState,
                            logged |-> logged, saved |-> saved,
                            saveArg |-> IF saved THEN new ELSE NoTamperState,
                            res |-> res]
               /\ sstore' = [has |-> sstore.has \/ (saved /\ saveOk),
                             state |-> IF saved /\ saveOk THEN new ELSE sstore.state,
                             events |-> IF logged /\ logOk THEN sstore.events + 1
                                        ELSE sstore.events]
               /\ sstate' = IF res = "nil" THEN new ELSE sstate
               /\ smon' = IF res = "nil" THEN [smon EXCEPT !.late = LateTick]
                          ELSE [smon EXCEPT !.pc = "off", !.ret = "error",
                                            !.late = LateTick]

(* checkSecurity as one step: nothing writes the sensor pins while it      *)
(* reads them.                                                             *)
checkSecurity(failAt, new, logOk, saveOk) ==
    /\ sense.pc = 0
    /\ checkSecurityFrom(failAt, new, logOk, saveOk)
    /\ UNCHANGED sense

(* A sensor pin changes level: a SetPinState call on it, which takes the   *)
(* controller's lock and not the manager's.                                *)
SetSensorPin(i, high) ==
    /\ UNCHANGED <<gpioVars, intVars, diagVars, thermVars, powVars, apiVars>>
    /\ sense.levels[i] # high
    /\ LET levels == [sense.levels EXCEPT ![i] = high]
       IN sense' = [sense EXCEPT !.levels = levels,
                                 !.seen = IF sense.pc # 0 /\ Agree(levels, sense.got, sense.pc - 1)
                                          THEN @ \cup {levels} ELSE @]
    /\ UNCHANGED <<scfg, sstate, sstore, smon, stick, nticks>>

(* Monitor's select takes the ticker case and checkSecurity takes the      *)
(* manager's lock.                                                         *)
checkSecurityLock ==
    /\ UNCHANGED <<gpioVars, intVars, diagVars, thermVars, powVars, apiVars>>
    /\ smon.pc = "idle" /\ sense.pc = 0
    /\ nticks < MaxTicks
    /\ sense' = [sense EXCEPT !.pc = 1, !.got = AtRest, !.seen = {sense.levels}]
    /\ smon' = [smon EXCEPT !.late = LateTick]
    /\ UNCHANGED <<scfg, sstate, sstore, stick, nticks>>

(* checkSecurity calls GetPinState for the next sensor, which returns the  *)
(* pin's level at that moment; ok is whether the call succeeds.  After the *)
(* third read the call goes on to its end.                                 *)
checkSecurityRead(ok, logOk, saveOk) ==
    /\ sense.pc \in 1..Len(Sensors)
    /\ LET i == sense.pc
           got == [sense.got EXCEPT ![i] = sense.levels[i]]
       IN IF ~ok
          THEN /\ checkSecurityFrom(i, NoTamperState, logOk, saveOk)
               /\ sense' = [sense EXCEPT !.pc = 0, !.got = AtRest, !.seen = {}]
          ELSE IF i < Len(Sensors)
          THEN /\ sense' = [sense EXCEPT !.pc = i + 1, !.got = got,
                                          !.seen = {l \in @ : Agree(l, got, i)}]
               /\ UNCHANGED <<gpioVars, intVars, diagVars, thermVars, powVars, apiVars>>
               /\ UNCHANGED <<scfg, sstate, sstore, smon, stick, nticks>>
          ELSE /\ checkSecurityFrom(0, StateOf(got), logOk, saveOk)
               /\ sense' = [sense EXCEPT !.pc = 0, !.got = got,
                                          !.seen = {l \in @ : Agree(l, got, i)}]

(* The manager read by read, with the sensor pins changing under it. *)
TamperNext ==
    \/ SecureMonitor
    \/ SecureCancel
    \/ SecureReturn
    \/ \E i \in 1..Len(Sensors), high \in BOOLEAN : SetSensorPin(i, high)
    \/ checkSecurityLock
    \/ \E ok \in BOOLEAN, logOk \in BOOLEAN, saveOk \in BOOLEAN :
          checkSecurityRead(ok, logOk, saveOk)

SecureNext ==
    \/ SecureMonitor
    \/ SecureCancel
    \/ SecureReturn
    \/ \E failAt \in 0..Len(Sensors), new \in TamperStates, logOk \in BOOLEAN,
          saveOk \in BOOLEAN : checkSecurity(failAt, new, logOk, saveOk)

(***************************************************************************)
(* power.stabilityMonitor                                                  *)
(***************************************************************************)
MaxSamples == 3

(* Voltages are in tenths of a volt, power in watts, currents in amperes   *)
(* as fractions, time in sample intervals.                                 *)
criticalVoltage == 48

Sources == {"MAIN", "BATTERY"}
VoltInputs == {42, 50}
WattInputs == {5, 15}
WindowInputs == {2, 3}

EventTypes == {"VOLTAGE_RIPPLE", "VOLTAGE_SAG", "CURRENT_SPIKE", "POWER_CYCLE",
               "SOURCE_FAILOVER"}

(* The zero StabilityMetrics; the average is kept as sum over count. *)
NoMetrics == [VoltageRipple |-> 0, MinVoltage |-> 0, MaxVoltage |-> 0,
              AverageVoltage |-> [num |-> 0, den |-> 1], PowerCycles |-> 0,
              LastCycleDuration |-> 0, CurrentSpikes |-> 0,
              MaxCurrentSpike |-> [num |-> 0, den |-> 1]]

(* What the last sample call saw and did; spikes is the currents of the    *)
(* ticks so far that were above the threshold.                             *)
NoPowerTick == [n |-> 0, avail |-> FALSE, prevOut |-> FALSE, firstOut |-> 0,
                cyclesBefore |-> 0, durationBefore |-> 0, events |-> <<>>,
                source |-> "", current |-> [num |-> 0, den |-> 1], spikes |-> {}]

(* newStabilityMonitor, for configurations that set both thresholds. *)
PowerInit ==
    /\ pcfg \in [SampleWindow : WindowInputs, RippleThreshold : {5}, CurrentThreshold : {2},
                 OnStabilityEvent : BOOLEAN]
    /\ samples = [i \in 1..pcfg.SampleWindow |-> 0]
    /\ head = 1
    /\ count = 0
    /\ lastSource = ""
    /\ cycleStart = 0
    /\ cycleInProgress = FALSE
    /\ metrics = NoMetrics
    /\ pnow = 0
    /\ pmon = [pc |-> "off", ret |-> "none"]
    /\ emitted = [e \in EventTypes |-> 0]
    /\ ptick = NoPowerTick
    /\ vhist = <<>>

(* a > b for two fractions with positive denominators. *)
FracGreater(a, b) == a.num * b.den > b.num * a.den

RECURSIVE SumOf(_, _)
SumOf(f, n) == IF n = 0 THEN 0 ELSE f[n] + SumOf(f, n - 1)

(* The smallest and the largest of the first n samples. *)
MinOf(f, n) == CHOOSE v \in {f[i] : i \in 1..n} : \A i \in 1..n : v <= f[i]
MaxOf(f, n) == CHOOSE v \in {f[i] : i \in 1..n} : \A i \in 1..n : v >= f[i]

(* Whether sample reports ripple: on every tick whose window shows more    *)
(* than the threshold.                                                     *)
RippleReported(ripple) == ripple > pcfg.RippleThreshold

(* The end of an outage as sample would see it without the flag, on every  *)
(* tick with power.                                                        *)
CycleEndsAlways(powerAvailable) == powerAvailable

(* The end of an outage as sample sees it. *)
CycleEnds(powerAvailable) == powerAvailable /\ cycleInProgress

(* A count that stops one short of the window. *)
CountedShort(c) == IF c + 1 < pcfg.SampleWindow THEN c + 1 ELSE c

(* sample: count grows until the buffer is full. *)
Counted(c) == IF c < pcfg.SampleWindow THEN c + 1 ELSE c

(* A maximum that follows the latest spike. *)
LatestSpike(current, max) == current

(* sample: MaxCurrentSpike after a spike of current. *)
LargestSpike(current, max) == IF FracGreater(current, max) THEN current ELSE max

(* Monitor is called: it starts its ticker and waits. *)
StabilityMonitor ==
    /\ UNCHANGED <<gpioVars, intVars, diagVars, thermVars, secVars, apiVars>>
    /\ pmon.pc = "off"
    /\ pmon' = [pc |-> "idle", ret |-> "none"]
    /\ UNCHANGED <<pcfg, samples, head, count, lastSource, cycleStart, cycleInProgress,
                   metrics, pnow, emitted, ptick, vhist>>

(* The context of the Monitor call is done: Monitor returns ctx.Err(). *)
StabilityCancel ==
    /\ UNCHANGED <<gpioVars, intVars, diagVars, thermVars, secVars, apiVars>>
    /\ pmon.pc = "idle"
    /\ pmon' = [pc |-> "off", ret |-> "cancelled"]
    /\ UNCHANGED <<pcfg, samples, head, count, lastSource, cycleStart, cycleInProgress,
                   metrics, pnow, emitted, ptick, vhist>>

(* The events of seq that OnStabilityEvent is handed: none without a       *)
(* callback.                                                               *)
Handed(seq) == IF pcfg.OnStabilityEvent THEN seq ELSE <<>>

(* How many events of type e are in seq. *)
CountOf(seq, e) == Cardinality({i \in 1..Len(seq) : seq[i] = e})

(* The ticker fires and Monitor calls sample, under the monitor's write    *)
(* lock.  voltage, watts, source and avail are the power state GetState    *)
(* returns on this tick; a sample interval has passed since the last tick. *)
(* sample always returns nil, so Monitor goes on waiting.                  *)
sample(voltage, watts, source, avail) ==
    /\ UNCHANGED <<gpioVars, intVars, diagVars, thermVars, secVars, apiVars>>
    /\ pmon.pc = "idle"
    /\ Len(vhist) < MaxSamples
    /\ LET t == pnow + 1
           current == [num |-> 10 * watts, den |-> voltage]
           buf == [samples EXCEPT ![head] = voltage]
           n == Counted(count)
           failover == source # lastSource
           powerAvailable == \E src \in Sources : avail[src]
           begins == ~powerAvailable /\ ~cycleInProgress
           ends == ~begins /\ CycleEnds(powerAvailable)
           min == MinOf(buf, n)
           max == MaxOf(buf, n)
           ripple == max - min
           spike == FracGreater(current, [num |-> pcfg.CurrentThreshold, den |-> 1])
           evs == (IF failover THEN <<"SOURCE_FAILOVER">> ELSE <<>>)
                  \o (IF ends THEN <<"POWER_CYCLE">> ELSE <<>>)
                  \o (IF RippleReported(ripple) THEN <<"VOLTAGE_RIPPLE">> ELSE <<>>)
                  \o (IF min < criticalVoltage THEN <<"VOLTAGE_SAG">> ELSE <<>>)
                  \o (IF spike THEN <<"CURRENT_SPIKE">> ELSE <<>>)
           out == ptick.n > 0 /\ ~ptick.avail
       IN /\ pnow' = t
          /\ samples' = buf
          /\ head' = (head % pcfg.SampleWindow) + 1
          /\ count' = n
          /\ lastSource' = source
          /\ cycleInProgress' = IF begins THEN TRUE ELSE IF ends THEN FALSE
                                ELSE cycleInProgress
          /\ cycleStart' = IF begins THEN t ELSE cycleStart
          /\ metrics' = [VoltageRipple |-> ripple, MinVoltage |-> min, MaxVoltage |-> max,
                         AverageVoltage |-> [num |-> SumOf(buf, n), den |-> n],
                         PowerCycles |-> IF ends THEN metrics.PowerCycles + 1
                                         ELSE metrics.PowerCycles,
                         LastCycleDuration |-> IF ends THEN t - cycleStart
                                               ELSE metrics.LastCycleDuration,
                         CurrentSpikes |-> IF spike THEN metrics.CurrentSpikes + 1
                                           ELSE metrics.CurrentSpikes,
                         MaxCurrentSpike |->
                             IF spike THEN LargestSpike(current, metrics.MaxCurrentSpike)
                             ELSE metrics.MaxCurrentSpike]
          /\ emitted' = [e \in EventTypes |-> emitted[e] + CountOf(Handed(evs), e)]
          /\ ptick' = [n |-> ptick.n + 1, avail |-> powerAvailable, prevOut |-> out,
                       firstOut |-> IF ~powerAvailable /\ ~out THEN t ELSE ptick.firstOut,
                       cyclesBefore |-> metrics.PowerCycles,
                       durationBefore |-> metrics.LastCycleDuration,
                       events |-> Handed(evs), source |-> source, current |-> current,
                       spikes |-> IF spike THEN ptick.spikes \cup {current}
                                  ELSE ptick.spikes]
          /\ vhist' = Append(vhist, voltage)
    /\ UNCHANGED <<pcfg, pmon>>

PowerNext ==
    \/ StabilityMonitor
    \/ StabilityCancel
    \/ \E voltage \in VoltInputs, watts \in WattInputs, source \in Sources,
          avail \in [Sources -> BOOLEAN] : sample(voltage, watts, source, avail)

(***************************************************************************)
(* Specifications                                                          *)
(***************************************************************************)
(* One initial state of each subsystem, for the specifications of the      *)
(* other subsystems.                                                       *)
IdleGpio == GpioInit /\ ~simulation
IdleDiag ==
    /\ DiagInit
    /\ cfg = New([Retries |-> 0, GPIOPins |-> <<"led">>, Power |-> TRUE, Thermal |-> TRUE,
                  Security |-> TRUE, OnTestComplete |-> FALSE])
IdleThermal ==
    /\ ThermalInit
    /\ tcfg = [fanPin |-> TRUE, throttlePin |-> TRUE, allZones |-> TRUE,
               onWarning |-> FALSE, onCritical |-> FALSE]
IdleSecure ==
    /\ SecureInit
    /\ scfg = [onTamper |-> FALSE, stateStore |-> FALSE]
IdlePower ==
    /\ PowerInit
    /\ pcfg = [SampleWindow |-> 2, RippleThreshold |-> 5, CurrentThreshold |-> 2,
               OnStabilityEvent |-> FALSE]
IdleApi == ApiInit /\ ~api.simulation
IdleRest == IdleSecure /\ IdlePower /\ IdleApi

Init == GpioInit /\ IntInit /\ IdleDiag /\ IdleThermal /\ IdleRest

Spec == Init /\ [][GpioNext]_vars

SpecPWM == Init /\ [][PwmNext]_vars

SpecInterrupt == Init /\ [][IntNext]_vars

(* The goroutines of the edge monitor are scheduled, and a handler returns. *)
MonitorFairness ==
    \A c \in OneMonitor :
        /\ WF_vars(MonitorReturn(c))
        /\ WF_vars(\E high \in BOOLEAN : Poll(c, high))
        /\ WF_vars(handleInterrupt(c))
        /\ WF_vars(Gate(c))
        /\ WF_vars(Call(c))

SpecMonitor == Init /\ [][MonitorNext]_vars /\ MonitorFairness

InitDiag == IdleGpio /\ IntInit /\ DiagInit /\ IdleThermal /\ IdleRest

SpecDiag == InitDiag /\ [][DiagNext]_vars

InitThermal == IdleGpio /\ IntInit /\ IdleDiag /\ ThermalInit /\ IdleRest

InitSecure ==
    IdleGpio /\ IntInit /\ IdleDiag /\ IdleThermal /\ SecureInit /\ IdlePower /\ IdleApi

InitPower ==
    IdleGpio /\ IntInit /\ IdleDiag /\ IdleThermal /\ IdleSecure /\ PowerInit /\ IdleApi

InitApi ==
    IdleGpio /\ IntInit /\ IdleDiag /\ IdleThermal /\ IdleSecure /\ IdlePower /\ ApiInit

SpecApi == InitApi /\ [][ApiNext]_vars

InitTwin == InitApi /\ ~api.simulation

SpecTwin == InitTwin /\ [][TwinNext]_vars

SpecPower == InitPower /\ [][PowerNext]_vars

SpecSecure == InitSecure /\ [][SecureNext]_vars

(* A manager with a callback and no store. *)
InitTamper == InitSecure /\ scfg = [onTamper |-> TRUE, stateStore |-> FALSE]

SpecTamper == InitTamper /\ [][TamperNext]_vars

SpecThermal == InitThermal /\ [][ThermalNext]_vars

(* The Monitor goroutine is scheduled: a tick that can take its next step  *)
(* takes it, and a callback returns.                                       *)
ThermalFairness ==
    /\ WF_vars(\E ok \in BOOLEAN, temp \in TempsOf(tick.zone) : TickRead(ok, temp))
    /\ WF_vars(CallbackReturn)
    /\ WF_vars(\E fanOk \in BOOLEAN, throttleOk \in BOOLEAN :
                  updateCooling("tick", fanOk, throttleOk))

SpecThermalFair == SpecThermal /\ ThermalFairness

(***************************************************************************)
(* Properties of the controller                                            *)
(***************************************************************************)

(* C1: once DisablePWM(name) has returned and until EnablePWM(name) is     *)
(* called again, no generation loop of the channel is left, the last write *)
(* to its pin is not a write of high and no PWM write reaches the pin.     *)
(* Stated for a name whose pwmState was not replaced by ConfigurePWM.      *)
C1_DisableStopsOutput ==
    \A n \in PwmNames :
        (quiet[n] /\ Orphans(n) = {}) =>
            (LoopsOf(n) = {} /\ hw[n] # "high" /\ ~lateWrite[n])

(* C2: at every moment at most one generation loop exists per channel name. *)
C2_OneLoopPerName == \A n \in PwmNames : Cardinality(LoopsOf(n)) <= 1

(* C3: at the moment Close returned, no PWM loop was running and no        *)
(* configured pin with a backing pin object had high as its last write.    *)
C3_CloseLeavesPinsLow ==
    closeView.returned => (closeView.running = 0 /\ closeView.high = {})

(* The operations that are to fail once the controller is closed. *)
ClosedOps == {"ConfigurePin", "ConfigurePWM", "SetPinState", "GetPinState", "EnablePWM",
              "SetPWMDutyCycle", "EnableInterrupt"}

(* C4: a ConfigurePin, ConfigurePWM, SetPinState, GetPinState, EnablePWM,  *)
(* SetPWMDutyCycle or EnableInterrupt call issued after Close returned     *)
(* does not succeed.                                                       *)
C4_NoSuccessAfterClose == (ret.afterClose /\ ret.op \in ClosedOps) => ret.res # "ok"

(***************************************************************************)
(* Properties of the edge monitor                                          *)
(***************************************************************************)

(* C5: two events the debounce gate accepts for a binding are at least the *)
(* binding's debounce time apart, the later accepted one having the later  *)
(* time.                                                                   *)
C5_AcceptedEventsSpaced ==
    \A n \in PinNames :
        Len(accepted[n]) = 2 =>
            accepted[n][2] - accepted[n][1] >= interrupts[n].debounce

(* C6: the handler of a binding does not run while the binding stands      *)
(* disabled, that is after DisableInterrupt returned.                      *)
C6_NoCallAfterDisable == \A n \in PinNames : ~lateCall[n]

(***************************************************************************)
(* Properties of the diagnostics battery                                   *)
(***************************************************************************)
(* The last result the current RunAll call recorded. *)
RunEnd == IF run.pc = "returned" THEN run.end ELSE Len(results)

InThisRun(k, status) ==
    \E i \in (base + 1)..RunEnd :
        results[i].type = Battery[k] /\ results[i].status = status

(* C7: RunAll attempts a battery test at most Retries times; a successful  *)
(* attempt is the last attempt of its test and RunAll moves to the next    *)
(* test; a test that passes after failed attempts has a Pass result        *)
(* recorded in this run and is not the test the run aborts on.             *)
C7_RetryUntilFirstSuccess ==
    /\ cfg.Retries # 0
    /\ \A k \in 1..Len(Battery) :
           /\ tries[k] <= (IF cfg.Retries > 0 THEN cfg.Retries ELSE 0)
           /\ passed[k] # 0 =>
                 /\ tries[k] = passed[k]
                 /\ run.pc = "running" => run.test > k
                 /\ ~(runRet.res = "error" /\ runRet.test = k)
           /\ passed[k] > 1 => InThisRun(k, "PASS")

(* A run in which a test failed twice and passed on its third attempt, and *)
(* which returned nil.                                                     *)
C7_ThirdAttemptPassed ==
    /\ runRet.res = "nil"
    /\ \E k \in 1..Len(Battery) : passed[k] = 3 /\ InThisRun(k, "FAIL") /\ InThisRun(k, "PASS")

(* C8: a test that failed on all Retries attempts makes RunAll return an   *)
(* error, which wraps the error of the last attempt; and a run that        *)
(* returned an error attempted no test after the failed one, so no result  *)
(* of a later test type was recorded in the run.                           *)
C8_ExhaustedRetriesAbort ==
    /\ \A k \in 1..Len(Battery) :
          (cfg.Retries > 0 /\ tries[k] = cfg.Retries /\ passed[k] = 0) =>
              (run.pc = "returned" /\ runRet = [res |-> "error", test |-> k,
                                                attempt |-> cfg.Retries])
    /\ runRet.res = "error" =>
          \A j \in (runRet.test + 1)..Len(Battery) :
              /\ tries[j] = 0
              /\ \A i \in (base + 1)..RunEnd : results[i].type # Battery[j]

(* A run that aborted on its second test after three failed attempts. *)
C8_AbortedOnPower ==
    /\ runRet.res = "error" /\ runRet.test = 2
    /\ cfg.Retries = 3 /\ tries[2] = 3 /\ passed[1] # 0

(***************************************************************************)
(* Properties of the thermal monitor                                       *)
(***************************************************************************)

(* C9: while a callback of the thermal monitor runs, the monitor's lock is *)
(* not held, and a callback that called GetState is not left waiting for   *)
(* the lock its own tick holds.                                            *)
C9_CallbackOutsideLock == tick.pc \in {"callback", "callback_getstate"} => tmux # "tick"

(* C10: the snapshot a completed cooling update leaves has fan duty 100    *)
(* and throttled set when max(CPU, GPU) is at or above the critical        *)
(* threshold, and throttled clear when it is below.                        *)
C10_CriticalMeansFullCooling ==
    tret.op \in {"updateCooling", "updateThermalState"} /\ tret.res = "ok" =>
        IF tret.maxTemp >= Celsius(cpuTempCritical)
        THEN tret.FanSpeed = fanSpeedHigh /\ tret.Throttled
        ELSE ~tret.Throttled

(* C11: the state a thermal callback is passed is the snapshot of its      *)
(* tick, so the warnings this tick has gathered so far, the one of the     *)
(* reported zone among them, are in the warnings set of that state.        *)
C11_CallbackGetsTickSnapshot ==
    tick.pc \in {"callback", "callback_getstate"} => tick.warnings \subseteq tick.arg.Warnings

(* C12: a Monitor call one of whose temperature reads failed has returned  *)
(* the error and is not ticking or reading again.                          *)
C12_ReadErrorEndsMonitor == tick.failed => (tick.pc = "off" /\ tick.ret = "error")

(* A Monitor call that read the CPU temperature, failed to read a later    *)
(* zone and returned the error.                                            *)
C12_MonitorReturnedError ==
    /\ tick.pc = "off" /\ tick.failed /\ tick.ret = "error"
    /\ tstate.temp[1] > 0
    /\ tret.op = "updateThermalState" /\ tret.res = "error"

(***************************************************************************)
(* Properties of the security manager                                      *)
(***************************************************************************)

(* C13: on a check whose three reads succeeded, the tamper callback ran    *)
(* exactly when the state read shows an open case, motion or a voltage     *)
(* that is not normal and a callback is configured, and it was passed the  *)
(* state read; LogEvent was asked for exactly when that condition holds    *)
(* and a store is configured.                                              *)
C13_TamperReportedIffDetected ==
    stick.read = "ok" =>
        LET tamper == stick.new.CaseOpen \/ stick.new.MotionDetected
                      \/ ~stick.new.VoltageNormal
        IN /\ stick.called = (tamper /\ scfg.onTamper)
           /\ stick.logged = (tamper /\ scfg.stateStore)
           /\ stick.called => stick.arg = stick.new

(* A check that found only the voltage not normal and reported it to the   *)
(* callback and to the store.                                              *)
C13_VoltageTamperReported ==
    /\ stick.read = "ok" /\ stick.called /\ stick.logged
    /\ ~stick.new.CaseOpen /\ ~stick.new.MotionDetected /\ ~stick.new.VoltageNormal
    /\ sstore.events > 0

(* C14: a check whose three reads succeeded asked the store, when there is *)
(* one, to save the state read, tamper or not; it returned nil, the        *)
(* manager's state is the state read and Monitor goes on ticking, whatever *)
(* the store calls returned.                                               *)
C14_StoreErrorsNeverFailTick ==
    stick.read = "ok" =>
        /\ stick.saved = scfg.stateStore
        /\ stick.saved => stick.saveArg = stick.new
        /\ stick.res = "nil"
        /\ sstate = stick.new
        /\ smon.pc = "idle" \/ smon.ret = "cancelled"

(* A check without tamper whose SaveState failed on the second tick: the   *)
(* store still holds the state of the first tick, the manager the new one. *)
C14_SaveFailedTickWentOn ==
    /\ stick.read = "ok" /\ stick.saved /\ ~Tampered(stick.new)
    /\ sstore.has /\ sstore.state # stick.new
    /\ sstate = stick.new /\ smon.pc = "idle" /\ nticks = MaxTicks

(***************************************************************************)
(* Properties of the power stability monitor                               *)
(***************************************************************************)

(* C15: a stability tick that sees some power source available after one   *)
(* or more ticks in a row without any adds one to PowerCycles, sets        *)
(* LastCycleDuration to the time since the first of those ticks, which is  *)
(* not zero, and hands one POWER_CYCLE event to the callback, when there   *)
(* is one; any other tick leaves both metrics as they were and hands out   *)
(* no POWER_CYCLE event.                                                   *)
C15_PowerCycleOnRestore ==
    ptick.n > 0 =>
        IF ptick.avail /\ ptick.prevOut
        THEN /\ metrics.PowerCycles = ptick.cyclesBefore + 1
             /\ metrics.LastCycleDuration = pnow - ptick.firstOut
             /\ metrics.LastCycleDuration > 0
             /\ CountOf(ptick.events, "POWER_CYCLE") = (IF pcfg.OnStabilityEvent THEN 1 ELSE 0)
        ELSE /\ metrics.PowerCycles = ptick.cyclesBefore
             /\ metrics.LastCycleDuration = ptick.durationBefore
             /\ CountOf(ptick.events, "POWER_CYCLE") = 0

(* Power came back on the third tick after two ticks without any source:   *)
(* one cycle of two intervals, reported once.                              *)
C15_RestoredAfterTwoTicksOut ==
    /\ ptick.n = 3 /\ ptick.avail /\ ptick.prevOut /\ ptick.firstOut = 1
    /\ metrics.PowerCycles = 1 /\ metrics.LastCycleDuration = 2
    /\ emitted["POWER_CYCLE"] = 1

(* C16: once the voltages 5.0, 4.2 and 5.0 have been sampled with a ripple *)
(* threshold of 0.5 V, the ripple metric is at least 0.5 V and exactly one *)
(* VOLTAGE_RIPPLE event has been handed to the callback.                   *)
C16_OneRippleEvent ==
    (vhist = <<50, 42, 50>> /\ pcfg.RippleThreshold = 5 /\ pcfg.OnStabilityEvent) =>
        (metrics.VoltageRipple >= 5 /\ emitted["VOLTAGE_RIPPLE"] = 1)

(***************************************************************************)
(* Properties of the controller's methods, call by call                    *)
(***************************************************************************)

(* C17: the stored duty cycle of every channel is within 0..100; a         *)
(* ConfigurePWM or SetPWMDutyCycle call with a duty cycle above 100        *)
(* returns an error and leaves the channels, their stored duty cycles and  *)
(* the pins as they were.                                                  *)
C17_DutyWithinRange ==
    /\ \A n \in PwmNames : api.pwm[n].dutyCycle \in 0..100
    /\ (last.call.op \in {"ConfigurePWM", "SetPWMDutyCycle"} /\ last.call.duty > 100) =>
          /\ last.result.res # "ok"
          /\ last.after.pwm = last.before.pwm
          /\ last.after.hw = last.before.hw
          /\ last.after.simPins = last.before.simPins

(* SetPWMDutyCycle with 101 was rejected on an enabled channel that keeps  *)
(* its duty cycle of 50.                                                   *)
C17_RejectedOnEnabledChannel ==
    /\ last.call.op = "SetPWMDutyCycle" /\ last.call.duty = 101
    /\ last.result.res = "invalid"
    /\ \E n \in PwmNames : api.pwm[n].present /\ api.pwm[n].enabled /\ api.pwm[n].dutyCycle = 50

(* C18: GetPWMState on a channel returns the duty cycle of the last        *)
(* SetPWMDutyCycle that succeeded on it.                                   *)
C18_ReadBackDuty ==
    (last.call.op = "GetPWMState" /\ last.result.res = "ok"
        /\ last.setDuty[last.call.name] # NoDuty) =>
            last.result.duty = last.setDuty[last.call.name]

(* What a client can tell of a controller: per channel whether it exists,  *)
(* whether it is enabled and its stored duty cycle, and the level of each  *)
(* plain pin.                                                              *)
Public(c) ==
    [pwm |-> [n \in PwmNames |-> [present |-> c.pwm[n].present, enabled |-> c.pwm[n].enabled,
                                  dutyCycle |-> c.pwm[n].dutyCycle]],
     level |-> [n \in PinNames |-> IF c.simulation THEN c.simPins[n]
                                   ELSE IF c.pins[n] = "absent" THEN "absent" ELSE c.hw[n]]]

(* C19: given the same calls, a simulated controller without pin objects   *)
(* and a hardware controller whose pins never fail return success together *)
(* and error together, and are left with the same duty cycles, enabled     *)
(* flags and pin levels.                                                   *)
C19_SimulationMatchesHardware ==
    /\ (twinRes.sim.res = "ok") = (twinRes.hw.res = "ok")
    /\ Public(twin.sim) = Public(twin.hw)

(* C20: SetPinState and GetPinState on a name no ConfigurePin succeeded    *)
(* for return not-found and change no level; ConfigurePin on a disabled    *)
(* controller returns an error and registers nothing.                      *)
C20_UnconfiguredPinNotFound ==
    /\ (last.call.op \in {"SetPinState", "GetPinState"} /\ ~last.okPin[last.call.name]) =>
          /\ last.result.res = "notfound"
          /\ last.after.simPins = last.before.simPins
          /\ last.after.hw = last.before.hw
    /\ (last.call.op = "ConfigurePin" /\ ~last.before.enabled) =>
          /\ last.result.res # "ok"
          /\ last.after.pins = last.before.pins
          /\ last.after.simPins = last.before.simPins
(* C21: once the context of a Monitor call is cancelled, the call returns  *)
(* and its polling goroutine exits; a goroutine that finds the context     *)
(* done at the top of its loop returns without another pin read, so that   *)
(* at most the read and handler call under way go on after cancellation.   *)
C21_CancelStopsPolling ==
    /\ [][\A c \in OneMonitor :
            (cancelled[c] /\ pollers[c].pc = "poll" /\ pollers'[c] # pollers[c])
                => pollers'[c].pc = "none"]_vars
    /\ \A c \in OneMonitor :
          cancelled[c] ~> (mon[c] = "returned" /\ pollers[c].pc = "none")

(* A Monitor call has returned and its poller, whose handler call was      *)
(* under way when the context was cancelled, has exited.                   *)
C21_PollerExitedAfterCancel ==
    \E c \in OneMonitor :
        /\ cancelled[c] /\ mon[c] = "returned" /\ pollers[c].pc = "none"
        /\ \E n \in PinNames : Len(accepted[n]) > 0

(* A change of level from one poll to the next that the edge mode asks     *)
(* for: RISING low to high, FALLING high to low, BOTH either.              *)
EdgeMatches(edge, prev, state) ==
    /\ prev # state
    /\ edge = "RISING" => state = "high"
    /\ edge = "FALLING" => state = "low"

(* C30: a polling goroutine calls the handler only when the level it read  *)
(* differs from the level of its previous poll and the change matches the  *)
(* edge mode of the binding; a pin whose level never changes causes no     *)
(* handler call.                                                           *)
C30_HandlerOnlyOnEdge ==
    \A c \in OneMonitor :
        (pollers[c].pc = "call" /\ pollers[c].prev # "none")
            => EdgeMatches(interrupts[pollers[c].name].edge, pollers[c].prev,
                           pollers[c].state)

(* C22: once the context of a Monitor call is cancelled, the call starts   *)
(* no new tick (here for the tamper monitor, whose loop the thermal, power *)
(* and stability monitors share).                                          *)
C22_NoTickAfterCancel == ~smon.late

(* C23: the result history is append-only: no step shortens it or changes  *)
(* an entry it holds; GetResults hands out the history as it stands, and   *)
(* what the caller then writes into that slice leaves the history alone.   *)
C23_HistoryAppendOnly ==
    [][/\ Len(results') >= Len(results)
       /\ SubSeq(results', 1, Len(results)) = results
       /\ (snap'.taken /\ ~snap.taken) => snap'.items = results]_vars

(* The caller overwrote an item of a slice GetResults returned, and the    *)
(* history still holds the result.                                         *)
C23_SnapshotOverwritten ==
    /\ snap.taken /\ Len(snap.items) > 0 /\ snap.items[1] = Scribble
    /\ Len(results) > 0 /\ results[1] # Scribble

(* C24: OnTestComplete runs exactly once for each recorded result, after   *)
(* the result was appended and within the attempt that recorded it, and    *)
(* without the manager's lock: a GetResults call from the callback returns *)
(* and its last item is that result.                                       *)
C24_CallbackOncePerResult ==
    IF cfg.OnTestComplete
    THEN /\ notified = Len(results)
         /\ Len(calls) <= Len(results)
         /\ \A i \in 1..Len(calls) :
               LET pos == Len(results) - Len(calls) + i
               IN /\ calls[i].arg = results[pos]
                  /\ calls[i].mux = "free"
                  /\ calls[i].returned
                  /\ calls[i].items = SubSeq(results, 1, pos)
    ELSE notified = 0 /\ calls = <<>>

(* An attempt recorded two results and the callback ran for each of them. *)
C24_TwoCallbacksInOneAttempt ==
    cfg.OnTestComplete /\ Len(calls) = 2 /\ run.pc = "running"

(* C25: with CPU at 35 and GPU at 40 a completed cooling update leaves fan  *)
(* duty at the low baseline, 25, and throttled clear.                      *)
C25_LowBaselineAt35And40 ==
    (/\ tret.op \in {"updateCooling", "updateThermalState"} /\ tret.res = "ok"
     /\ tstate.temp[1] = Celsius(35) /\ tstate.temp[2] = Celsius(40)
     /\ tret.maxTemp = Celsius(40)
     /\ tcfg.fanPin /\ tstate.Warnings = {})
        => (tret.FanSpeed = fanSpeedLow /\ ~tret.Throttled)

(* C26: after a critical excursion that set throttled, a tick that read    *)
(* every zone below its warning threshold completes, and the state it      *)
(* leaves has throttled clear and no warnings.                             *)
C26_RecoveryClearsThrottle ==
    (/\ tstate.Throttled /\ tick.pc = "cooling"
     /\ \A z \in 1..Len(Zones) : tstate.temp[z] < Celsius(WarningOf(z)))
        ~> (tick.pc = "idle" /\ ~tstate.Throttled /\ tstate.Warnings = {})

(* C28: every thermal tick terminates and releases the monitor's lock: a   *)
(* tick that has come to its updateCooling call completes it and returns,  *)
(* leaving the lock free for GetState and SetFanSpeed.                     *)
C28_TickReleasesLock ==
    (tick.pc = "cooling") ~> (tick.pc \in {"idle", "off"} /\ tmux = "free")

(* C27: Close on a hardware-mode controller with a PWM channel terminates: *)
(* it never comes to wait, in the DisablePWM call it makes, for the lock   *)
(* that it holds itself and releases only when it returns.                 *)
C27_CloseNeverWaitsForItself ==
    \A t \in Threads : ~(th[t].pc = "close_disable" /\ cmux = t /\ ~ReadLockFree)

(* C29: a failed pin write does not stop the generation loop: while its    *)
(* channel is enabled, a loop that is back at its select after a write has *)
(* its timer running, so that a new cycle, with a new write, follows.      *)
C29_LoopGoesOnAfterFailedWrite ==
    \A l \in Loops :
        (/\ loops[l].pc = "select"
         /\ obj[loops[l].obj].enabled /\ obj[loops[l].obj].pin = "real")
            => loops[l].armed


(***************************************************************************)
(* Further properties of the controller, call by call                      *)
(***************************************************************************)
(* C40: a ConfigurePin call that returns an error leaves the registry as   *)
(* it was, in both modes: the maps of pins and of simulated pins are those *)
(* of before the call.                                                     *)
C40_FailedConfigureRegistersNothing ==
    (last.call.op = "ConfigurePin" /\ last.result.res # "ok") =>
        /\ last.after.pins = last.before.pins
        /\ last.after.simPins = last.before.simPins

(***************************************************************************)
(* Further properties of the thermal monitor                               *)
(***************************************************************************)
(* C31: a tick that fails on a temperature read leaves the snapshot as it  *)
(* was before the tick: once the Monitor call has returned the read error  *)
(* and the lock is free again, the state GetState returns holds no         *)
(* temperature that this tick stored.                                      *)
C31_FailedTickKeepsSnapshot ==
    (tick.pc = "off" /\ tick.failed /\ tmux = "free") => ~tick.changed

(* The fan curve as the specification states it, for warning 70 and        *)
(* critical 80, of a temperature m given in millidegrees: 25 below 35      *)
(* degrees, 25 + floor(25 * (m - 35) / 35) up to 70, 50 + floor(50 * (m -  *)
(* 70) / 10) up to 80, 100 from there, in exact arithmetic.                *)
FanCurve(m) ==
    IF m < 35000 THEN 25
    ELSE IF m < 70000 THEN 25 + (25 * (m - 35000)) \div 35000
    ELSE IF m < 80000 THEN 50 + (50 * (m - 70000)) \div 10000
    ELSE 100

(* A cooling update has returned: updateCooling called on its own, or the  *)
(* tick whose last step it is.                                             *)
CoolingReturned == tret.op \in {"updateCooling", "updateThermalState"} /\ tret.res = "ok"

(* C35: after every cooling update the fan duty of the snapshot is the     *)
(* curve's value for max(CPU, GPU), hence within 25..100.  Stated here for *)
(* the updates the claim fares best on: those of a monitor with a fan pin  *)
(* whose PWM write, if they made one, was accepted.                        *)
C35_DutyFollowsCurve ==
    (CoolingReturned /\ tcfg.fanPin /\ tret.fan # "failed") =>
        /\ tret.FanSpeed = FanCurve(tret.maxTemp)
        /\ tret.FanSpeed \in 25..100

C33_NilMeansAllPassed ==
    (run.pc = "returned" /\ runRet.res = "nil") => \A k \in 1..Len(Battery) : passed[k] # 0

(* C34: every attempt of a test records a result: the results an attempt   *)
(* that returned an error appended have a Fail among them, and those an    *)
(* attempt that returned nil appended have a Pass among them.              *)
C34_EveryAttemptRecords ==
    [][(run.pc = "running" /\ tries' # tries) =>
          LET k == run.test
              new == {results'[i] : i \in (Len(results) + 1)..Len(results')}
          IN IF passed'[k] # passed[k]
             THEN \E rec \in new : rec.type = Battery[k] /\ rec.status = "PASS"
             ELSE \E rec \in new : rec.type = Battery[k] /\ rec.status = "FAIL"]_vars

(***************************************************************************)
(* Further properties of the security manager                              *)
(***************************************************************************)
(* C32: the state a checkSecurity call publishes is the three sensor       *)
(* levels as they stood together at some moment during the call, whatever  *)
(* SetPinState calls on the sensor pins ran meanwhile.                      *)
C32_OneSamplingInstant ==
    (stick.read = "ok" /\ sense.pc = 0) => \E l \in sense.seen : sstate = StateOf(l)

(***************************************************************************)
(* Further properties of the power stability monitor                       *)
(***************************************************************************)
(* The voltage samples the circular buffer holds: all of them while fewer  *)
(* than SampleWindow were pushed, the most recent SampleWindow afterwards. *)
HeldSamples ==
    LET k == IF Len(vhist) < pcfg.SampleWindow THEN Len(vhist) ELSE pcfg.SampleWindow
    IN SubSeq(vhist, Len(vhist) - k + 1, Len(vhist))

(* C37: after every stability tick the minimum, maximum, average and       *)
(* ripple of the metrics are those of exactly the samples the buffer       *)
(* holds.                                                                  *)
C37_MetricsOverHeldSamples ==
    Len(vhist) > 0 =>
        LET held == HeldSamples
            vals == {held[i] : i \in 1..Len(held)}
        IN /\ metrics.MinVoltage \in vals /\ \A v \in vals : metrics.MinVoltage <= v
           /\ metrics.MaxVoltage \in vals /\ \A v \in vals : metrics.MaxVoltage >= v
           /\ metrics.VoltageRipple = metrics.MaxVoltage - metrics.MinVoltage
           /\ metrics.AverageVoltage.num * Len(held)
                  = SumOf(held, Len(held)) * metrics.AverageVoltage.den
           /\ count = Len(held)

(* A buffer of two that wrapped around: the third sample overwrote the     *)
(* first, a sag, and the metrics no longer show it.                        *)
C37_WrappedPastOldestSample ==
    /\ pcfg.SampleWindow = 2 /\ Len(vhist) = 3
    /\ vhist[1] = 42 /\ metrics.MinVoltage = 50 /\ head = 2

(* C38: with a callback, a stability tick emits a SOURCE_FAILOVER event if *)
(* and only if its current source differs from the one the previous tick   *)
(* observed; the first tick has no previous tick and emits none.           *)
C38_FailoverIffSourceChanged ==
    [][(ptick'.n = ptick.n + 1 /\ pcfg.OnStabilityEvent) =>
          ((\E i \in 1..Len(ptick'.events) : ptick'.events[i] = "SOURCE_FAILOVER")
               <=> (ptick.n > 0 /\ ptick'.source # ptick.source))]_vars

(* C39: a tick whose current is above CurrentThreshold raises              *)
(* CurrentSpikes by one and, with a callback, emits one CURRENT_SPIKE      *)
(* event; a tick at or below the threshold changes neither the counter nor *)
(* the maximum and emits none; MaxCurrentSpike never decreases and is the  *)
(* largest current among the spike ticks so far.                           *)
C39_SpikesCountedAndMaximal ==
    /\ [][ptick'.n = ptick.n + 1 =>
            LET cur == ptick'.current
                above == cur.num > pcfg.CurrentThreshold * cur.den
                spikeEvents == CountOf(ptick'.events, "CURRENT_SPIKE")
            IN /\ ~FracGreater(metrics.MaxCurrentSpike, metrics'.MaxCurrentSpike)
               /\ IF above
                  THEN /\ metrics'.CurrentSpikes = metrics.CurrentSpikes + 1
                       /\ spikeEvents = IF pcfg.OnStabilityEvent THEN 1 ELSE 0
                  ELSE /\ metrics'.CurrentSpikes = metrics.CurrentSpikes
                       /\ metrics'.MaxCurrentSpike = metrics.MaxCurrentSpike
                       /\ spikeEvents = 0]_vars
    /\ [](/\ metrics.CurrentSpikes = 0 <=> ptick.spikes = {}
          /\ ptick.spikes # {} =>
                /\ metrics.MaxCurrentSpike \in ptick.spikes
                /\ \A c \in ptick.spikes : ~FracGreater(c, metrics.MaxCurrentSpike))

(* Two spike ticks, the second smaller than the first, and then a tick     *)
(* below the threshold: the maximum is still the first one's current.      *)
C39_SmallerSpikeKeptMaximum ==
    /\ metrics.CurrentSpikes = 2 /\ Cardinality(ptick.spikes) = 2 /\ ptick.n = 3
    /\ ptick.current.num <= pcfg.CurrentThreshold * ptick.current.den
    /\ \A c \in ptick.spikes : ~FracGreater(c, metrics.MaxCurrentSpike)

====
